---- MODULE Spec2Model ----
(***************************************************************************)
(* Coordination layer of the LINC agents: the agent registry kept in the   *)
(* agents table, the lifecycle of a BaseLINCAgent process (startup         *)
(* registration, heartbeat loop, shutdown), point-to-point delivery with   *)
(* its InterAgentMessage records, the MasterLINC router and workflow map,  *)
(* the publish/subscribe side of the MessageBroker, the health cache of    *)
(* the OrchestrationService and the manual health check, the registration  *)
(* of users by AuthLINC, the authentication dependency of the routing      *)
(* endpoint, and the agents table as concurrently starting processes write *)
(* it.                                                                     *)
(*                                                                         *)
(* Time is a clock sampled every HeartbeatInterval seconds.  A missing     *)
(* Python value (None) is the string None, a missing timestamp is NoTime.  *)
(***************************************************************************)
EXTENDS Integers, Sequences, FiniteSets, TLC

\* ------------------------------------------------------------------ bounds
MaxTime == 120
MaxMsgs == 2
MaxPending == 1
MaxEvents == 2
MaxWorkflows == 2
MaxListeners == 2
MaxRequests == 3

\* ------------------------------------------------------- program constants
HeartbeatInterval == 30
AgentRegistryTtl == 60

None == "None"
NoTime == 0 - 1

\* Agent processes that run the BaseLINCAgent code in this model.
Procs == {"masterlinc", "customlinc"}
\* Agent names that can be written to the agents table.
Names == {"masterlinc", "customlinc", "doctorlinc"}
\* The MessageBroker objects: message_broker of every process, and the
\* broker of MasterLINC.messenger.
MessengerBroker == "masterlinc.messenger"
Brokers == Procs \cup {MessengerBroker}
\* A name that no operation of the model ever registers.
GhostName == "ghostlinc"
ProcVersion == "1.0.0"

\* The rows seed_initial_data inserts, restricted to the modelled names
\* (the source seeds sixteen agents; customlinc is not one of them).
SeedType == [masterlinc |-> "core", doctorlinc |-> "healthcare"]
SeedNames == DOMAIN SeedType

\* Columns and mapped attributes of the Agent class (hasattr is true).
AgentAttrs == {"id", "name", "type", "status", "version", "subdomain", "port",
               "description", "capabilities", "dependencies",
               "health_check_url", "last_heartbeat", "created_at",
               "updated_at", "messages"}

VARIABLES
    now,              \* wall clock, in seconds
    agents,           \* agents table: name -> [status, type, version, last_heartbeat]
    procState,        \* per process: init, running, stopping, stopped
    hbTask,           \* per process heartbeat task: none, created, due, sleeping
    brokerConnected,  \* is_connected of each MessageBroker object
    events,           \* system_events rows written by receive_message
    messages,         \* inter_agent_messages table, in id order
    tasks,            \* per message id: the background _send_agent_message call
    active_workflows, \* MasterLINC.active_workflows: workflow_id -> instance
    execQueue,        \* scheduled _execute_workflow background tasks
    published,        \* messages handed to the pub/sub transport
    dispatchLog,      \* per workflow: what became of its workflow_request
    healthCache,      \* redis agent_health:<type> entries: type -> [value, expires]
    lastCheck,        \* the most recent check_agent_health call and its result
    lastManual,       \* the most recent POST /agents/<name>/health-check exchange
    lastRoute,        \* the most recent OrchestrationService.route_request call
    routed,           \* POST /workflow/route exchanges: request, scores, response
    replies,          \* receive_message calls in order: workflow named, response
    subscribers,      \* MessageBroker.subscribers of the messenger: channel -> handler
    pubsubChannels,   \* channels the pubsub connection of the messenger listens on
    inbox,            \* messages the pubsub connection received and no task has read
    listeners,        \* number of running _listen_for_messages tasks
    handled,          \* every message a listener task read, and what it did with it
    registered,       \* <<channel, handler>> given to subscribe, channel not unsubscribed since
    users,            \* users table, in id order: [username, email]
    regTasks,         \* per server process of AuthLINC: its POST /auth/register request
    authLog,          \* POST /workflow/route requests: the credentials and the status code
    agentRows,        \* agents table row by row, as concurrent sessions write it
    sessions          \* per starting process: its position in init_database and _register_agent

registryVars == <<agents, procState, hbTask, brokerConnected>>
sendVars == <<messages, tasks>>
engineVars == <<active_workflows, execQueue, published, dispatchLog>>
healthVars == <<healthCache, lastCheck, lastManual, lastRoute>>
routeVars == <<routed, replies>>
pubsubVars == <<subscribers, pubsubChannels, inbox, listeners, handled,
                registered>>
authVars == <<users, regTasks, authLog>>
rowVars == <<agentRows, sessions>>
vars == <<now, agents, procState, hbTask, brokerConnected, events, messages,
          tasks, active_workflows, execQueue, published, dispatchLog,
          healthCache, lastCheck, lastManual, lastRoute, routed, replies,
          subscribers, pubsubChannels, inbox, listeners, handled, registered,
          users, regTasks, authLog, agentRows, sessions>>

\* dict.get(key): the value, or None when the key is absent
Get(payload, key) == IF key \in DOMAIN payload THEN payload[key] ELSE None

\* A function with one more (or one replaced) key.
Put(f, k, v) == [x \in (DOMAIN f) \cup {k} |-> IF x = k THEN v ELSE f[x]]

\* A function without key k.
Drop(f, k) == [x \in (DOMAIN f) \ {k} |-> f[x]]

\* ---------------------------------------------------------------- registry
\* DatabaseManager.seed_initial_data: nothing when any agent row exists,
\* otherwise one row per seed agent with the column defaults
\* (status offline, version 1.0.0, last_heartbeat = insert time).
seed_initial_data(tbl, t) ==
    IF DOMAIN tbl # {} THEN tbl
    ELSE [n \in SeedNames |->
            [status |-> "offline", type |-> SeedType[n],
             version |-> "1.0.0", last_heartbeat |-> t]]

\* BaseLINCAgent._register_agent: update the existing row, or insert one.
\* The insert leaves last_heartbeat to the column default func.now().
_register_agent(tbl, name, t) ==
    IF name \in DOMAIN tbl
    THEN [tbl EXCEPT ![name].status = "online",
                     ![name].version = ProcVersion,
                     ![name].last_heartbeat = t]
    ELSE Put(tbl, name, [status |-> "online", type |-> "custom",
                         version |-> ProcVersion, last_heartbeat |-> t])

\* BaseLINCAgent._update_agent_status: no effect when the row is missing.
_update_agent_status_all(tbl, name, status, t) ==
    [n \in DOMAIN tbl |->
        [tbl[n] EXCEPT !.status = status, !.last_heartbeat = t]]

_update_agent_status(tbl, name, status, t) ==
    IF name \in DOMAIN tbl
    THEN [tbl EXCEPT ![name].status = status, ![name].last_heartbeat = t]
    ELSE tbl

\* The setattr loop of _handle_agent_registration on an existing row, for
\* the modelled columns other than name.
MergeFields(rec, agent_data) ==
    [status |-> IF "status" \in DOMAIN agent_data
                THEN agent_data["status"] ELSE rec.status,
     type |-> IF "type" \in DOMAIN agent_data
              THEN agent_data["type"] ELSE rec.type,
     version |-> IF "version" \in DOMAIN agent_data
                 THEN agent_data["version"] ELSE rec.version,
     last_heartbeat |-> rec.last_heartbeat]

\* MasterLINC._handle_agent_registration.  Every exception is caught and
\* logged, and the session is rolled back: the table is then unchanged.
\*  existing row: setattr for every payload key the Agent class has; a new
\*    name that another row already uses violates the unique index;
\*  no row: Agent(name=agent_name, **agent_data) raises TypeError on a
\*    second name argument and on a key that is no attribute of Agent, and
\*    the insert fails on the NOT NULL column type when no type is given.
_handle_agent_registration(tbl, agent_name, agent_data, t) ==
    IF agent_name \in DOMAIN tbl
    THEN LET merged == MergeFields(tbl[agent_name], agent_data)
             newName == IF "name" \in DOMAIN agent_data
                        THEN agent_data["name"] ELSE agent_name
         IN  IF newName = agent_name
             THEN [tbl EXCEPT ![agent_name] = merged]
             ELSE IF newName \in DOMAIN tbl
                  THEN tbl
                  ELSE Put(Drop(tbl, agent_name), newName, merged)
    ELSE IF \/ "name" \in DOMAIN agent_data
            \/ ~(DOMAIN agent_data \subseteq AgentAttrs)
            \/ "type" \notin DOMAIN agent_data
         THEN tbl
         ELSE Put(tbl, agent_name,
                  [status |-> IF "status" \in DOMAIN agent_data
                              THEN agent_data["status"] ELSE "offline",
                   type |-> agent_data["type"],
                   version |-> IF "version" \in DOMAIN agent_data
                               THEN agent_data["version"] ELSE "1.0.0",
                   last_heartbeat |-> t])

\* ------------------------------------------------------- process lifecycle
\* MessageBroker.connect: is_connected afterwards; a failure is only logged.
connect(redisUp) == redisUp

\* BaseLINCAgent._startup_event: init_database (create tables and seed),
\* _register_agent, message_broker.connect (which may fail and only logs),
\* then the heartbeat task is created: its first iteration is the next
\* thing the event loop runs.
Startup(p, redisUp) ==
    /\ procState[p] = "init"
    /\ agents' = _register_agent(seed_initial_data(agents, now), p, now)
    /\ brokerConnected' = [brokerConnected EXCEPT ![p] = connect(redisUp)]
    /\ hbTask' = [hbTask EXCEPT ![p] = "created"]
    /\ procState' = [procState EXCEPT ![p] = "running"]
    /\ UNCHANGED <<now, events, sendVars, engineVars, healthVars, authVars,
                   rowVars, routeVars, pubsubVars>>

\* One iteration of BaseLINCAgent._heartbeat_loop: the status update, then
\* the task sleeps for HeartbeatInterval seconds.  The task is created by
\* asyncio.create_task and is referenced nowhere, so it runs for as long as
\* the event loop of the process does: also while the shutdown handler is
\* suspended in message_broker.disconnect.
Heartbeat(p) ==
    /\ hbTask[p] \in {"created", "due"}
    /\ procState[p] \in {"running", "stopping"}
    /\ agents' = _update_agent_status(agents, p, "online", now)
    /\ hbTask' = [hbTask EXCEPT ![p] = "sleeping"]
    /\ UNCHANGED <<now, procState, brokerConnected, events, sendVars,
                   engineVars, healthVars, authVars, rowVars, routeVars,
                   pubsubVars>>

\* BaseLINCAgent._shutdown_event up to its first suspension point: the
\* status is set to offline, then the handler awaits the broker disconnect.
\* The first heartbeat iteration was scheduled before the handler was.
ShutdownBegin(p) ==
    /\ procState[p] = "running"
    /\ hbTask[p] # "created"
    /\ agents' = _update_agent_status(agents, p, "offline", now)
    /\ procState' = [procState EXCEPT ![p] = "stopping"]
    /\ UNCHANGED <<now, hbTask, brokerConnected, events, sendVars, engineVars,
                   healthVars, authVars, rowVars, routeVars, pubsubVars>>

\* The rest of _shutdown_event: the broker is disconnected, the handler
\* returns and the event loop of the process ends, and its tasks with it.
ShutdownEnd(p) ==
    /\ procState[p] = "stopping"
    /\ brokerConnected' = [brokerConnected EXCEPT ![p] = FALSE]
    /\ hbTask' = [hbTask EXCEPT ![p] = "none"]
    /\ procState' = [procState EXCEPT ![p] = "stopped"]
    /\ UNCHANGED <<now, agents, events, sendVars, engineVars, healthVars,
                   authVars, rowVars, routeVars, pubsubVars>>

\* HeartbeatInterval seconds pass.  A heartbeat iteration that is due runs
\* before the next interval ends; every sleeping heartbeat task becomes due.
Tick ==
    /\ now + HeartbeatInterval <= MaxTime
    /\ \A p \in Procs : hbTask[p] \notin {"created", "due"}
    /\ now' = now + HeartbeatInterval
    /\ hbTask' = [p \in Procs |->
                    IF hbTask[p] = "sleeping" THEN "due" ELSE hbTask[p]]
    /\ UNCHANGED <<agents, procState, brokerConnected, events, sendVars,
                   engineVars, healthVars, authVars, rowVars, routeVars,
                   pubsubVars>>

\* ------------------------------------------------------------------ router
\* Texts are sequences of characters.
\* str.lower, on ASCII letters.
UpperToLower == [A |-> "a", B |-> "b", C |-> "c", D |-> "d", E |-> "e", F |-> "f",
                 G |-> "g", H |-> "h", I |-> "i", J |-> "j", K |-> "k", L |-> "l",
                 M |-> "m", N |-> "n", O |-> "o", P |-> "p", Q |-> "q", R |-> "r",
                 S |-> "s", T |-> "t", U |-> "u", V |-> "v", W |-> "w", X |-> "x",
                 Y |-> "y", Z |-> "z"]
lower(text) ==
    [i \in 1..Len(text) |->
        IF text[i] \in DOMAIN UpperToLower THEN UpperToLower[text[i]]
        ELSE text[i]]

\* keyword in text: keyword occurs as a contiguous substring.
IsSubstring(keyword, text) ==
    \E i \in 0..(Len(text) - Len(keyword)) :
        \A j \in 1..Len(keyword) : text[i + j] = keyword[j]

\* The agents of intent_keywords, in dictionary order.
RoutedAgents == <<"doctorlinc", "nurslinc", "patientlinc", "bizlinc",
                  "paylinc", "chatlinc">>
intent_keywords ==
    [doctorlinc |->
        <<<<"d", "o", "c", "t", "o", "r">>,
         <<"p", "h", "y", "s", "i", "c", "i", "a", "n">>,
         <<"m", "e", "d", "i", "c", "a", "l">>,
         <<"d", "i", "a", "g", "n", "o", "s", "i", "s">>,
         <<"p", "r", "e", "s", "c", "r", "i", "p", "t", "i", "o", "n">>,
         <<"s", "y", "m", "p", "t", "o", "m">>,
         <<"t", "r", "e", "a", "t", "m", "e", "n", "t">>,
         <<"c", "l", "i", "n", "i", "c">>,
         <<"c", "o", "n", "s", "u", "l", "t", "a", "t", "i", "o", "n">>,
         <<"h", "e", "a", "l", "t", "h">>>>,
     nurslinc |->
        <<<<"n", "u", "r", "s", "e">>,
         <<"n", "u", "r", "s", "i", "n", "g">>,
         <<"c", "a", "r", "e">>,
         <<"m", "e", "d", "i", "c", "a", "t", "i", "o", "n">>,
         <<"v", "i", "t", "a", "l", " ", "s", "i", "g", "n", "s">>,
         <<"s", "h", "i", "f", "t">>,
         <<"r", "e", "p", "o", "r", "t">>,
         <<"p", "a", "t", "i", "e", "n", "t", " ", "c", "a", "r", "e">>,
         <<"c", "h", "e", "c", "k", "l", "i", "s", "t">>>>,
     patientlinc |->
        <<<<"p", "a", "t", "i", "e", "n", "t">>,
         <<"a", "p", "p", "o", "i", "n", "t", "m", "e", "n", "t">>,
         <<"s", "c", "h", "e", "d", "u", "l", "e">>,
         <<"e", "d", "u", "c", "a", "t", "i", "o", "n">>,
         <<"h", "e", "a", "l", "t", "h", " ", "t", "r", "a", "c", "k", "i", "n", "g">>,
         <<"l", "a", "b", " ", "r", "e", "s", "u", "l", "t", "s">>,
         <<"m", "e", "d", "i", "c", "a", "t", "i", "o", "n", " ", "r", "e", "m", "i", "n", "d", "e", "r">>,
         <<"s", "y", "m", "p", "t", "o", "m", "s">>>>,
     bizlinc |->
        <<<<"b", "u", "s", "i", "n", "e", "s", "s">>,
         <<"e", "n", "t", "r", "e", "p", "r", "e", "n", "e", "u", "r">>,
         <<"s", "t", "a", "r", "t", "u", "p">>,
         <<"p", "r", "o", "p", "o", "s", "a", "l">>,
         <<"r", "f", "p">>,
         <<"m", "a", "r", "k", "e", "t", " ", "a", "n", "a", "l", "y", "s", "i", "s">>,
         <<"e", "t", "i", "m", "a", "d">>,
         <<"s", "a", "u", "d", "i", " ", "b", "u", "s", "i", "n", "e", "s", "s">>>>,
     paylinc |->
        <<<<"p", "a", "y", "m", "e", "n", "t">>,
         <<"b", "i", "l", "l", "i", "n", "g">>,
         <<"i", "n", "v", "o", "i", "c", "e">>,
         <<"f", "i", "n", "a", "n", "c", "i", "a", "l">>,
         <<"s", "u", "b", "s", "c", "r", "i", "p", "t", "i", "o", "n">>,
         <<"s", "t", "r", "i", "p", "e">>,
         <<"p", "a", "y", "p", "a", "l">>,
         <<"t", "r", "a", "n", "s", "a", "c", "t", "i", "o", "n">>>>,
     chatlinc |->
        <<<<"c", "h", "a", "t">>,
         <<"t", "a", "l", "k">>,
         <<"c", "o", "n", "v", "e", "r", "s", "a", "t", "i", "o", "n">>,
         <<"h", "e", "l", "p">>,
         <<"s", "u", "p", "p", "o", "r", "t">>,
         <<"q", "u", "e", "s", "t", "i", "o", "n">>,
         <<"i", "n", "f", "o", "r", "m", "a", "t", "i", "o", "n">>>>]

\* _get_supporting_agents: the static support table; an agent without an
\* entry has no supporting agents.
support_map == [doctorlinc |-> <<"nurslinc", "patientlinc">>,
                nurslinc |-> <<"doctorlinc">>,
                patientlinc |-> <<"doctorlinc", "nurslinc">>,
                bizlinc |-> <<"paylinc", "insightlinc">>,
                paylinc |-> <<"bizlinc">>,
                chatlinc |-> <<>>]
_get_supporting_agents(primary_agent) ==
    IF primary_agent \in DOMAIN support_map THEN support_map[primary_agent]
    ELSE <<>>

\* sum(1 for keyword in keywords if keyword in user_intent_lower)
KeywordCount(agent, text) ==
    Cardinality({k \in 1..Len(intent_keywords[agent]) :
                    IsSubstring(intent_keywords[agent][k], text)})

\* score / len(keywords) as the fraction <<score, len(keywords)>>; the
\* comparison of two such floats is the comparison of the fractions.
ScoreLess(a, b) == a[1] * b[2] < b[1] * a[2]

\* The fixed score given to chatlinc when no agent matched (0.8).
FallbackScore == <<4, 5>>

\* agent_scores after the scoring loop and the default: one entry for each
\* agent with a matching keyword; when there is none, the single entry
\* chatlinc with the fixed score.
agent_scores_unfiltered(user_intent) ==
    LET text == lower(user_intent)
    IN  [a \in DOMAIN intent_keywords |->
            <<KeywordCount(a, text), Len(intent_keywords[a])>>]

agent_scores(user_intent) ==
    LET text == lower(user_intent)
        matched == {a \in DOMAIN intent_keywords : KeywordCount(a, text) > 0}
    IN  IF matched = {}
        THEN [a \in {"chatlinc"} |-> FallbackScore]
        ELSE [a \in matched |->
                <<KeywordCount(a, text), Len(intent_keywords[a])>>]

\* max(scores.keys(), key=lambda x: scores[x]) for a dictionary whose keys
\* are iterated in the order they have in the sequence order: the first
\* key whose score no other key exceeds.
MaxByScore(order, scores) ==
    LET keys == {i \in 1..Len(order) : order[i] \in DOMAIN scores}
        first == CHOOSE i \in keys :
                    \A j \in keys :
                       /\ j < i => ScoreLess(scores[order[j]],
                                             scores[order[i]])
                       /\ j > i => ~ScoreLess(scores[order[i]],
                                              scores[order[j]])
    IN  order[first]

\* primary_agent: the key of agent_scores with the highest score;
\* agent_scores is filled in the order of intent_keywords.
primary_agent_of_first(user_intent) ==
    LET scores == agent_scores(user_intent)
        keys == {i \in 1..Len(RoutedAgents) : RoutedAgents[i] \in DOMAIN scores}
    IN  RoutedAgents[CHOOSE i \in keys : \A j \in keys : i <= j]

primary_agent_of(user_intent) ==
    MaxByScore(RoutedAgents, agent_scores(user_intent))

\* The steps list built by _analyze_and_route.
StepsOf_renumbered(primary_agent, supporting_agents) ==
    [i \in 1..(1 + Len(supporting_agents)) |->
        IF i = 1
        THEN [step |-> 1, agent |-> primary_agent,
              action |-> "process_request", status |-> "pending"]
        ELSE [step |-> i - 1, agent |-> supporting_agents[i - 1],
              action |-> "support_processing", status |-> "waiting"]]

StepsOf(primary_agent, supporting_agents) ==
    [i \in 1..(1 + Len(supporting_agents)) |->
        IF i = 1
        THEN [step |-> 1, agent |-> primary_agent,
              action |-> "process_request", status |-> "pending"]
        ELSE [step |-> i, agent |-> supporting_agents[i - 1],
              action |-> "support_processing", status |-> "waiting"]]

\* MasterLINC._analyze_and_route with the generated workflow id.
_analyze_and_route(user_intent, workflow_id) ==
    LET primary_agent == primary_agent_of(user_intent)
        supporting_agents == _get_supporting_agents(primary_agent)
    IN  [workflow_id |-> workflow_id,
         primary_agent |-> primary_agent,
         supporting_agents |-> supporting_agents,
         estimated_duration |-> 5,
         steps |-> StepsOf(primary_agent, supporting_agents)]

\* The request texts of the model: texts with one agent matching, with no
\* keyword at all, with several agents matching and with agents whose scores
\* are equal.
Intents ==
    <<<<"I", " ", "n", "e", "e", "d", " ", "t", "o", " ", "s", "e", "e", " ", "a", " ", "D", "o", "c", "t", "o", "r", " ", "a", "b", "o", "u", "t", " ", "m", "y", " ", "p", "r", "e", "s", "c", "r", "i", "p", "t", "i", "o", "n">>,
      <<"h", "e", "l", "l", "o", " ", "t", "h", "e", "r", "e">>,
      <<"p", "a", "t", "i", "e", "n", "t", " ", "c", "a", "r", "e">>,
      <<"b", "u", "s", "i", "n", "e", "s", "s", " ", "p", "a", "y", "m", "e", "n", "t">>,
      <<>>,
      <<"d", "o", "c", "t", "o", "r", " ", "p", "a", "y", "m", "e", "n", "t", " ", "b", "i", "l", "l", "i", "n", "g">>,
      <<"H", "E", "L", "P">>,
      <<"c", "h", "a", "t", " ", "a", "b", "o", "u", "t", " ", "a", "n", " ", "i", "n", "v", "o", "i", "c", "e">>,
      <<"s", "y", "m", "p", "t", "o", "m", "s">>,
      <<"s", "c", "h", "e", "d", "u", "l", "e", " ", "a", " ", "n", "u", "r", "s", "e">>,
      <<"w", "h", "a", "t", " ", "i", "s", " ", "t", "h", "e", " ", "w", "e", "a", "t", "h", "e", "r">>,
      <<"s", "t", "a", "r", "t", "u", "p", " ", "p", "r", "o", "p", "o", "s", "a", "l", " ", "r", "f", "p">>,
      <<"p", "a", "t", "i", "e", "n", "t", " ", "p", "a", "y", "m", "e", "n", "t">>>>

\* The routing result of each modelled text, computed once; the workflow id
\* is filled in by the request.
PlanOfIntent ==
    [i \in 1..Len(Intents) |-> _analyze_and_route(Intents[i], None)]

\* agent_scores of each modelled text, computed once.
ScoresOfIntent ==
    [i \in 1..Len(Intents) |-> agent_scores(Intents[i])]

\* WorkflowRequest.context: a dictionary, empty by default.
EmptyDict == <<>>
Contexts == {EmptyDict, [patient_id |-> "p-1"]}

\* --------------------------------------------------------- workflow engine
\* uuid4 values, in the order they are generated.
WorkflowIdPool == <<"wf-1", "wf-2", "wf-3", "wf-4">>
UnknownWorkflowId == "wf-unknown"
UserIds == {1}
Running(p) == procState[p] = "running"
\* The event loop of p still runs its background tasks.
LoopAlive(p) == procState[p] \in {"running", "stopping"}

\* The body of route_workflow for the user the dependencies resolved: the
\* text is routed, _execute_workflow is scheduled as a background task with
\* the routing result and the user id, and the routing result is the
\* response.
RouteEffect(i, context, user_id) ==
    LET workflow_id == WorkflowIdPool[Cardinality(DOMAIN execQueue) + 1]
        routing_result == [PlanOfIntent[i] EXCEPT !.workflow_id = workflow_id]
    IN  /\ execQueue' = Put(execQueue, workflow_id,
                            [workflow_data |-> routing_result,
                             user_id |-> user_id, pc |-> "scheduled"])
        /\ routed' = Append(routed,
                            [user_intent |-> Intents[i],
                             context |-> context, user_id |-> user_id,
                             agent_scores |-> ScoresOfIntent[i],
                             response |-> routing_result])

\* POST /workflow/route for an authenticated user.
RouteWorkflow(i, context, user_id) ==
    /\ Running("masterlinc")
    /\ Cardinality(DOMAIN execQueue) < MaxWorkflows
    /\ RouteEffect(i, context, user_id)
    /\ UNCHANGED <<now, registryVars, events, sendVars, active_workflows,
                   published, dispatchLog, healthVars, authVars, rowVars,
                   replies, pubsubVars>>

\* The instance _execute_workflow stores: the routing result and status,
\* user_id, started_at.  completed_at and error are set later.
NewInstance(workflow_data, user_id, t) ==
    [workflow_id |-> workflow_data.workflow_id,
     primary_agent |-> workflow_data.primary_agent,
     supporting_agents |-> workflow_data.supporting_agents,
     estimated_duration |-> workflow_data.estimated_duration,
     steps |-> workflow_data.steps,
     status |-> "executing", user_id |-> user_id, started_at |-> t,
     completed_at |-> NoTime, error |-> None]

\* _execute_workflow up to the await of send_to_agent: the instance is
\* stored with status executing.
ExecuteStore(w) ==
    /\ w \in DOMAIN execQueue
    /\ execQueue[w].pc = "scheduled"
    /\ LoopAlive("masterlinc")
    /\ active_workflows' =
          Put(active_workflows, w,
              NewInstance(execQueue[w].workflow_data, execQueue[w].user_id,
                          now))
    /\ execQueue' = [execQueue EXCEPT ![w].pc = "dispatching"]
    /\ UNCHANGED <<now, registryVars, events, sendVars, published, dispatchLog,
                   healthVars, authVars, rowVars, routeVars, pubsubVars>>

\* MessageBroker.publish: is_connected afterwards (one connect attempt when
\* the broker was not connected).
publish_connected(connected, redisUp) ==
    IF connected THEN connected ELSE connect(redisUp)

\* MessageBroker.publish: whether the transport took the message.
publish_sent(redisUp) == redisUp

\* MessageBroker.publish: whether the call raises.  The transport publish
\* runs inside try / except Exception, and connect catches its own errors.
publish_raises_on_failure(redisUp) == ~redisUp

publish_raises(redisUp) == FALSE

\* AgentMessenger.send_to_agent: the message given to publish.
DirectMessage(from_agent, target_agent, message_type, payload) ==
    [channel |-> <<"linc:agent:", target_agent>>,
     from_agent |-> from_agent, to_agent |-> target_agent,
     message_type |-> message_type, payload |-> payload]

\* The rest of _execute_workflow: the workflow_request is published on the
\* channel of the primary agent; the except branch marks the instance as
\* error when the send raised.
ExecuteDispatch_autocomplete(w) ==
    /\ w \in DOMAIN execQueue
    /\ execQueue[w].pc = "dispatching"
    /\ LoopAlive("masterlinc")
    /\ \E redisUp \in BOOLEAN :
        LET primary_agent == execQueue[w].workflow_data.primary_agent
            message_payload ==
                [workflow_id |-> w, user_id |-> execQueue[w].user_id,
                 request_type |-> "workflow_start",
                 context |-> IF "context" \in DOMAIN execQueue[w].workflow_data
                             THEN execQueue[w].workflow_data["context"]
                             ELSE EmptyDict]
            msg == DirectMessage("masterlinc", primary_agent,
                                 "workflow_request", message_payload)
        IN  /\ brokerConnected' =
                 [brokerConnected EXCEPT ![MessengerBroker] =
                     publish_connected(brokerConnected[MessengerBroker],
                                       redisUp)]
            /\ published' = IF publish_sent(redisUp)
                            THEN Append(published, msg) ELSE published
            /\ dispatchLog' = Put(dispatchLog, w,
                                  IF publish_sent(redisUp)
                                  THEN "published" ELSE "dropped")
            /\ active_workflows' =
                 IF publish_raises(redisUp) /\ w \in DOMAIN active_workflows
                 THEN [active_workflows EXCEPT ![w].status = "error",
                                               ![w].error = "publish error"]
                 ELSE IF publish_sent(redisUp) /\ w \in DOMAIN active_workflows
                 THEN [active_workflows EXCEPT ![w].status = "completed"]
                 ELSE active_workflows
    /\ execQueue' = [execQueue EXCEPT ![w].pc = "done"]
    /\ UNCHANGED <<now, agents, procState, hbTask, events, sendVars,
                   healthVars, authVars, rowVars, routeVars, pubsubVars>>

ExecuteDispatch(w) ==
    /\ w \in DOMAIN execQueue
    /\ execQueue[w].pc = "dispatching"
    /\ LoopAlive("masterlinc")
    /\ \E redisUp \in BOOLEAN :
        LET primary_agent == execQueue[w].workflow_data.primary_agent
            message_payload ==
                [workflow_id |-> w, user_id |-> execQueue[w].user_id,
                 request_type |-> "workflow_start",
                 context |-> IF "context" \in DOMAIN execQueue[w].workflow_data
                             THEN execQueue[w].workflow_data["context"]
                             ELSE EmptyDict]
            msg == DirectMessage("masterlinc", primary_agent,
                                 "workflow_request", message_payload)
        IN  /\ brokerConnected' =
                 [brokerConnected EXCEPT ![MessengerBroker] =
                     publish_connected(brokerConnected[MessengerBroker],
                                       redisUp)]
            /\ published' = IF publish_sent(redisUp)
                            THEN Append(published, msg) ELSE published
            /\ dispatchLog' = Put(dispatchLog, w,
                                  IF publish_sent(redisUp)
                                  THEN "published" ELSE "dropped")
            /\ active_workflows' =
                 IF publish_raises(redisUp) /\ w \in DOMAIN active_workflows
                 THEN [active_workflows EXCEPT ![w].status = "error",
                                               ![w].error = "publish error"]
                 ELSE active_workflows
    /\ execQueue' = [execQueue EXCEPT ![w].pc = "done"]
    /\ UNCHANGED <<now, agents, procState, hbTask, events, sendVars,
                   healthVars, authVars, rowVars, routeVars, pubsubVars>>

\* MasterLINC._handle_agent_message: the workflow map afterwards.
HandleWorkflows_upsert(wfs, message_type, payload, t) ==
    LET workflow_id == Get(payload, "workflow_id")
    IN  IF message_type = "workflow_complete"
        THEN Put(wfs, workflow_id,
                 [status |-> "completed", completed_at |-> t, error |-> None])
        ELSE IF message_type = "workflow_error"
        THEN Put(wfs, workflow_id,
                 [status |-> "error", completed_at |-> NoTime,
                  error |-> Get(payload, "error")])
        ELSE wfs

HandleWorkflows(wfs, message_type, payload, t) ==
    LET workflow_id == Get(payload, "workflow_id")
    IN  IF message_type = "workflow_complete" /\ workflow_id \in DOMAIN wfs
        THEN [wfs EXCEPT ![workflow_id].status = "completed",
                         ![workflow_id].completed_at = t]
        ELSE IF message_type = "workflow_error" /\ workflow_id \in DOMAIN wfs
        THEN [wfs EXCEPT ![workflow_id].status = "error",
                         ![workflow_id].error = Get(payload, "error")]
        ELSE wfs

\* MasterLINC._handle_agent_message: the agents table afterwards.
HandleAgents(tbl, from_agent, message_type, payload, t) ==
    IF message_type = "agent_registration"
    THEN _handle_agent_registration(tbl, from_agent, payload, t)
    ELSE tbl

\* receive_message of agent r: the system_events row it writes.  The
\* correlation id is the one handed over in the metadata argument.
ReceivedEvent(r, from_agent, message_type, correlation_id) ==
    [event_type |-> "message.received", agent_name |-> r,
     from_agent |-> from_agent, message_type |-> message_type,
     correlation_id |-> correlation_id]

\* The return value of _handle_agent_message: MasterLINC acknowledges every
\* message type the same way, a known one or not; the base class adds the
\* name of the agent.
HandleResponse(r, message_type) ==
    IF r = "masterlinc" THEN [status |-> "acknowledged"]
    ELSE [status |-> "acknowledged", agent |-> r]

\* receive_message of agent r, then its _handle_agent_message: MasterLINC
\* overrides the handler, every other agent only acknowledges.  The call
\* answers with the response of the handler; the exchange is kept with the
\* workflow id the payload named (None when it named none).
ReceiveEffect(r, from_agent, message_type, payload, correlation_id) ==
    /\ events' = Append(events, ReceivedEvent(r, from_agent, message_type,
                                              correlation_id))
    /\ replies' = Append(replies,
                         [workflow_id |-> Get(payload, "workflow_id"),
                          status |-> "received",
                          response |-> HandleResponse(r, message_type)])
    /\ active_workflows' =
          IF r = "masterlinc"
          THEN HandleWorkflows(active_workflows, message_type, payload, now)
          ELSE active_workflows
    /\ agents' =
          IF r = "masterlinc"
          THEN HandleAgents(agents, from_agent, message_type, payload, now)
          ELSE agents

\* The messages of the model: <<message_type, payload>>.
WorkflowPayloads ==
    {[workflow_id |-> w] : w \in {"wf-1", "wf-2", UnknownWorkflowId}}
    \cup {[workflow_id |-> w, error |-> e] :
             w \in {"wf-1", UnknownWorkflowId}, e \in {"boom"}}
RegistrationPayloads ==
    {[version |-> "2.0.0"], [type |-> "custom", status |-> "online"],
     [type |-> "custom", status |-> "busy"],
     [type |-> "custom", bogus |-> "x"], [name |-> "customlinc"]}
WorkflowMessages ==
    {<<t, p>> : t \in {"workflow_complete", "workflow_error"},
                p \in WorkflowPayloads}
RegistrationMessages ==
    {<<"agent_registration", p>> : p \in RegistrationPayloads}
CorrIds == {None, "c1"}

\* POST /messages/receive on agent r, by any HTTP client.
ReceiveMessage(r, from_agent, m, correlation_id) ==
    /\ Running(r)
    /\ Len(events) < MaxEvents
    /\ ReceiveEffect(r, from_agent, m[1], m[2], correlation_id)
    /\ UNCHANGED <<now, procState, hbTask, brokerConnected, sendVars,
                   execQueue, published, dispatchLog, healthVars, authVars,
                   rowVars, routed, pubsubVars>>

\* --------------------------------------------------------- direct delivery
\* uuid4 values generated for sends without a correlation id, by message id.
GeneratedCorrIds == <<"uuid-1", "uuid-2", "uuid-3", "uuid-4">>
SendTargets == {"masterlinc", "doctorlinc", GhostName}
SendMessages == {<<"notification", [text |-> "hi"]>>,
                 <<"agent_registration", [status |-> "online"]>>}

\* POST /messages/send on agent p: the InterAgentMessage row is inserted
\* with the column default status pending and the given or a generated
\* correlation id; _send_agent_message is scheduled as a background task
\* with the correlation id of the request (None when none was given).
SendMessage(p, to_agent, m, correlation_id) ==
    /\ Running(p)
    /\ Len(messages) < MaxMsgs
    /\ LET id == Len(messages) + 1
       IN  /\ messages' = Append(messages,
                [from_agent |-> p, to_agent |-> to_agent,
                 message_type |-> m[1], payload |-> m[2],
                 priority |-> "normal",
                 correlation_id |-> IF correlation_id # None
                                    THEN correlation_id
                                    ELSE GeneratedCorrIds[id],
                 status |-> "pending", processed_at |-> NoTime])
           /\ tasks' = Append(tasks,
                [from_agent |-> p, to_agent |-> to_agent,
                 message_type |-> m[1], payload |-> m[2],
                 correlation_id |-> correlation_id,
                 pc |-> "queued", result |-> "running", cause |-> None])
    /\ UNCHANGED <<now, registryVars, events, engineVars, healthVars, authVars,
                   rowVars, routeVars, pubsubVars>>

\* The except branch of _send_agent_message: with a correlation id, the
\* first row that carries it (lowest id) is set to failed; without one
\* nothing is updated.
MarkFailed_requeue(msgs, correlation_id) ==
    LET matching == {i \in 1..Len(msgs) :
                        msgs[i].correlation_id = correlation_id}
    IN  IF correlation_id # None /\ matching # {}
        THEN LET first == CHOOSE i \in matching :
                              \A j \in matching : i <= j
             IN  [msgs EXCEPT ![first].status =
                     IF @ = "failed" THEN "pending" ELSE "failed"]
        ELSE msgs

MarkFailed(msgs, correlation_id) ==
    LET matching == {i \in 1..Len(msgs) :
                        msgs[i].correlation_id = correlation_id}
    IN  IF correlation_id # None /\ matching # {}
        THEN LET first == CHOOSE i \in matching :
                              \A j \in matching : i <= j
             IN  [msgs EXCEPT ![first].status = "failed"]
        ELSE msgs

\* _send_agent_message returns after its except branch: the exception is
\* logged, not raised, and the coroutine returns None.
TaskFailed_retry(task, cause) ==
    [task EXCEPT !.pc = "queued", !.cause = cause]

TaskFailed(task, cause) ==
    [task EXCEPT !.pc = "done", !.result = "returned_none", !.cause = cause]

\* _send_agent_message up to the await of the POST: the target row is
\* looked up; a missing row or a status other than online raises.
SendStart(i) ==
    /\ i \in 1..Len(tasks)
    /\ tasks[i].pc = "queued"
    /\ LoopAlive(tasks[i].from_agent)
    /\ LET to_agent == tasks[i].to_agent
       IN  IF to_agent \notin DOMAIN agents
           THEN /\ messages' = MarkFailed(messages, tasks[i].correlation_id)
                /\ tasks' = [tasks EXCEPT ![i] = TaskFailed(@, "not_found")]
           ELSE IF agents[to_agent].status # "online"
           THEN /\ messages' = MarkFailed(messages, tasks[i].correlation_id)
                /\ tasks' = [tasks EXCEPT ![i] = TaskFailed(@, "not_online")]
           ELSE /\ messages' = messages
                /\ tasks' = [tasks EXCEPT ![i].pc = "inflight"]
    /\ UNCHANGED <<now, registryVars, events, engineVars, healthVars, authVars,
                   rowVars, routeVars, pubsubVars>>

\* The POST of task i reaches /messages/receive of the target, which
\* handles it and answers 200.
DeliverRequest(i) ==
    /\ i \in 1..Len(tasks)
    /\ tasks[i].pc = "inflight"
    /\ tasks[i].to_agent \in Procs
    /\ Running(tasks[i].to_agent)
    /\ ReceiveEffect(tasks[i].to_agent, tasks[i].from_agent,
                     tasks[i].message_type, tasks[i].payload,
                     tasks[i].correlation_id)
    /\ tasks' = [tasks EXCEPT ![i].pc = "answered"]
    /\ UNCHANGED <<now, procState, hbTask, brokerConnected, messages,
                   execQueue, published, dispatchLog, healthVars, authVars,
                   rowVars, routed, pubsubVars>>

\* The POST of task i returned status 200: the response body is returned.
\* The InterAgentMessage row is not touched.
SendOk(i) ==
    /\ i \in 1..Len(tasks)
    /\ tasks[i].pc = "answered"
    /\ LoopAlive(tasks[i].from_agent)
    /\ tasks' = [tasks EXCEPT ![i].pc = "done", ![i].result = "returned_response"]
    /\ UNCHANGED <<now, registryVars, events, messages, engineVars, healthVars,
                   authVars, rowVars, routeVars, pubsubVars>>

\* The POST of task i failed: the connection was refused, the peer
\* answered with another status than 200, or no answer came within the
\* 30 s timeout (also when the peer did handle the request).
SendError_notimeout(i, cause) ==
    /\ i \in 1..Len(tasks)
    /\ tasks[i].pc = "inflight"
    /\ cause \in {"connect_error", "http_error"}
    /\ LoopAlive(tasks[i].from_agent)
    /\ messages' = MarkFailed(messages, tasks[i].correlation_id)
    /\ tasks' = [tasks EXCEPT ![i] = TaskFailed(@, cause)]
    /\ UNCHANGED <<now, registryVars, events, engineVars, healthVars, authVars,
                   rowVars, routeVars, pubsubVars>>

SendError(i, cause) ==
    /\ i \in 1..Len(tasks)
    /\ \/ tasks[i].pc = "inflight"
          /\ cause \in {"connect_error", "http_error", "timeout"}
       \/ tasks[i].pc = "answered" /\ cause = "timeout"
    /\ LoopAlive(tasks[i].from_agent)
    /\ messages' = MarkFailed(messages, tasks[i].correlation_id)
    /\ tasks' = [tasks EXCEPT ![i] = TaskFailed(@, cause)]
    /\ UNCHANGED <<now, registryVars, events, engineVars, healthVars, authVars,
                   rowVars, routeVars, pubsubVars>>

\* ----------------------------------------------------------- health check
\* OrchestrationService of the orchestration app: two of its agent types.
AgentTypes == {"doctor", "chat"}
\* What the GET of <agent url>/health yields: a status code, or an
\* exception of the HTTP client.
ProbeOutcomes == {"200", "204", "503", "timeout", "refused"}

\* redis.get(cache_key): an entry set with setex is gone once its time to
\* live has passed.
CacheGet_noexpiry(cache, agent_type, t) ==
    IF agent_type \in DOMAIN cache
    THEN cache[agent_type].value
    ELSE None

CacheGet(cache, agent_type, t) ==
    IF agent_type \in DOMAIN cache /\ t < cache[agent_type].expires
    THEN cache[agent_type].value
    ELSE None

\* OrchestrationService.check_agent_health, given what redis.get returned
\* ("fault" when it raised), the outcome of the probe and whether
\* redis.setex works.  probed: the probe was issued; write: the value
\* cached with setex (None: nothing written); result: the value returned;
\* raised: the call ended with an exception instead of a value.
\* Every exception ends in the except branch, which returns False.
check_agent_health_cached(cached, outcome, setOk) ==
    IF cached = "fault"
    THEN [probed |-> FALSE, write |-> None, result |-> FALSE,
          raised |-> FALSE]
    ELSE IF cached = "healthy"
    THEN [probed |-> FALSE, write |-> None, result |-> TRUE,
          raised |-> FALSE]
    ELSE IF cached = "unhealthy"
    THEN [probed |-> FALSE, write |-> None, result |-> FALSE,
          raised |-> FALSE]
    ELSE IF outcome \in {"timeout", "refused"}
    THEN [probed |-> TRUE, write |-> None, result |-> FALSE,
          raised |-> FALSE]
    ELSE IF ~setOk
    THEN [probed |-> TRUE, write |-> None, result |-> FALSE,
          raised |-> FALSE]
    ELSE [probed |-> TRUE,
          write |-> IF outcome = "200" THEN "healthy" ELSE "unhealthy",
          result |-> outcome = "200", raised |-> FALSE]

check_agent_health(cached, outcome, setOk) ==
    IF cached = "fault"
    THEN [probed |-> FALSE, write |-> None, result |-> FALSE,
          raised |-> FALSE]
    ELSE IF cached = "healthy"
    THEN [probed |-> FALSE, write |-> None, result |-> TRUE,
          raised |-> FALSE]
    ELSE IF outcome \in {"timeout", "refused"}
    THEN [probed |-> TRUE, write |-> None, result |-> FALSE,
          raised |-> FALSE]
    ELSE IF ~setOk
    THEN [probed |-> TRUE, write |-> None, result |-> FALSE,
          raised |-> FALSE]
    ELSE [probed |-> TRUE,
          write |-> IF outcome = "200" THEN "healthy" ELSE "unhealthy",
          result |-> outcome = "200", raised |-> FALSE]

\* One call of check_agent_health(agent_type).
CheckAgentHealth(agent_type, getOk, outcome, setOk) ==
    /\ LET cached == IF getOk THEN CacheGet(healthCache, agent_type, now)
                     ELSE "fault"
           r == check_agent_health(cached, outcome, setOk)
       IN  /\ healthCache' =
                IF r.write # None
                THEN Put(healthCache, agent_type,
                         [value |-> r.write,
                          expires |-> now + AgentRegistryTtl])
                ELSE healthCache
           /\ lastCheck' = [agent_type |-> agent_type, cached |-> cached,
                            probed |-> r.probed,
                            outcome |-> IF r.probed THEN outcome ELSE None,
                            stored |-> r.write # None,
                            result |-> r.result, raised |-> r.raised]
    /\ UNCHANGED <<now, registryVars, events, sendVars, engineVars, lastManual,
                   lastRoute, authVars, rowVars, routeVars, pubsubVars>>

\* What the GET of health_check_url yields for the manual check: as above,
\* and a 200 whose body is not JSON.
ManualOutcomes == ProbeOutcomes \cup {"200_text"}

\* health_check_url of the row: _register_agent sets it, the seed and the
\* modelled registration payloads do not.
HasHealthUrl(name) == name \in Procs /\ procState[name] # "init"

\* MasterLINC._check_agent_health: the status of the dictionary it returns.
\* Without a URL nothing is probed.  response.json() runs inside the try:
\* every exception ends in the except branch, which returns status error.
_check_agent_health_uncaught(has_url, outcome) ==
    IF ~has_url
    THEN [probed |-> FALSE, status |-> "unknown", raised |-> FALSE]
    ELSE IF outcome = "200"
    THEN [probed |-> TRUE, status |-> "healthy", raised |-> FALSE]
    ELSE IF outcome \in {"timeout", "refused", "200_text"}
    THEN [probed |-> TRUE, status |-> None, raised |-> TRUE]
    ELSE [probed |-> TRUE, status |-> "unhealthy", raised |-> FALSE]

_check_agent_health(has_url, outcome) ==
    IF ~has_url
    THEN [probed |-> FALSE, status |-> "unknown", raised |-> FALSE]
    ELSE IF outcome = "200"
    THEN [probed |-> TRUE, status |-> "healthy", raised |-> FALSE]
    ELSE IF outcome \in {"timeout", "refused", "200_text"}
    THEN [probed |-> TRUE, status |-> "error", raised |-> FALSE]
    ELSE [probed |-> TRUE, status |-> "unhealthy", raised |-> FALSE]

\* POST /agents/{agent_name}/health-check on MasterLINC: 404 when the name
\* has no row, otherwise the dictionary of _check_agent_health.
HealthCheckAgent(agent_name, outcome) ==
    /\ Running("masterlinc")
    /\ lastManual' =
          IF agent_name \notin DOMAIN agents
          THEN [agent |-> agent_name, code |-> 404, probed |-> FALSE,
                outcome |-> None, status |-> None, raised |-> FALSE]
          ELSE LET r == _check_agent_health(HasHealthUrl(agent_name), outcome)
               IN  [agent |-> agent_name,
                    code |-> IF r.raised THEN 500 ELSE 200,
                    probed |-> r.probed,
                    outcome |-> IF r.probed THEN outcome ELSE None,
                    status |-> r.status, raised |-> r.raised]
    /\ UNCHANGED <<now, registryVars, events, sendVars, engineVars,
                   healthCache, lastCheck, lastRoute, authVars, rowVars,
                   routeVars, pubsubVars>>

\* What http_client.request yields for the forwarded request: a status
\* code (200_text: a 200 whose body is not JSON), or a timeout.
ForwardOutcomes == {"200", "200_text", "503", "timeout"}

\* OrchestrationService.log_routing_event: the events stored by one call,
\* and whether the call raised; lpush, ltrim and expire are not guarded.
log_routing_event(logOk, status) ==
    IF logOk THEN [logged |-> <<status>>, raised |-> FALSE]
    ELSE [logged |-> <<>>, raised |-> TRUE]

\* OrchestrationService.route_request for a known agent type, given the
\* value check_agent_health returned, what the forwarded request yields
\* and whether the event store accepts writes.  forwarded: the request was
\* sent; logged: the routing events stored, in order; raised: the call
\* ended with an exception.  Both except branches log an error event and
\* raise again.
route_request_unchecked(healthy, response, logOk) ==
    LET err == log_routing_event(logOk, "error")
        ok == log_routing_event(logOk, "success")
    IN  IF response \in {"503", "timeout"}
        THEN [forwarded |-> TRUE, logged |-> err.logged, raised |-> TRUE]
        ELSE IF ok.raised
        THEN [forwarded |-> TRUE, logged |-> err.logged, raised |-> TRUE]
        ELSE IF response = "200_text"
        THEN [forwarded |-> TRUE, logged |-> ok.logged \o err.logged,
              raised |-> TRUE]
        ELSE [forwarded |-> TRUE, logged |-> ok.logged, raised |-> FALSE]

route_request(healthy, response, logOk) ==
    LET err == log_routing_event(logOk, "error")
        ok == log_routing_event(logOk, "success")
    IN  IF ~healthy
        THEN [forwarded |-> FALSE, logged |-> err.logged, raised |-> TRUE]
        ELSE IF response \in {"503", "timeout"}
        THEN [forwarded |-> TRUE, logged |-> err.logged, raised |-> TRUE]
        ELSE IF ok.raised
        THEN [forwarded |-> TRUE, logged |-> err.logged, raised |-> TRUE]
        ELSE IF response = "200_text"
        THEN [forwarded |-> TRUE, logged |-> ok.logged \o err.logged,
              raised |-> TRUE]
        ELSE [forwarded |-> TRUE, logged |-> ok.logged, raised |-> FALSE]

\* One call of route_request(agent_type, ...): a type without a URL raises
\* ValueError before anything else; otherwise the health check runs first,
\* with its effect on the cache.
OrchestrationRouteRequest(agent_type, getOk, outcome, setOk, response, logOk) ==
    IF agent_type \notin AgentTypes
    THEN /\ lastRoute' = [agent_type |-> agent_type, checked |-> FALSE,
                          healthy |-> FALSE, forwarded |-> FALSE,
                          store_ok |-> logOk, logged |-> <<>>,
                          raised |-> TRUE]
         /\ UNCHANGED <<now, registryVars, events, sendVars, engineVars,
                        healthCache, lastCheck, lastManual, authVars,
                        rowVars, routeVars, pubsubVars>>
    ELSE /\ LET cached == IF getOk
                          THEN CacheGet(healthCache, agent_type, now)
                          ELSE "fault"
                r == check_agent_health(cached, outcome, setOk)
                q == route_request(r.result, response, logOk)
            IN  /\ healthCache' =
                     IF r.write # None
                     THEN Put(healthCache, agent_type,
                              [value |-> r.write,
                               expires |-> now + AgentRegistryTtl])
                     ELSE healthCache
                /\ lastCheck' = [agent_type |-> agent_type,
                                 cached |-> cached, probed |-> r.probed,
                                 outcome |-> IF r.probed THEN outcome
                                             ELSE None,
                                 stored |-> r.write # None,
                                 result |-> r.result, raised |-> r.raised]
                /\ lastRoute' = [agent_type |-> agent_type,
                                 checked |-> TRUE, healthy |-> r.result,
                                 forwarded |-> q.forwarded,
                                 store_ok |-> logOk, logged |-> q.logged,
                                 raised |-> q.raised]
         /\ UNCHANGED <<now, registryVars, events, sendVars, engineVars,
                        lastManual, authVars, rowVars, routeVars,
                        pubsubVars>>

\* ----------------------------------------------------------------- pub/sub
\* The MessageBroker of MasterLINC.messenger as a subscriber.  Channel
\* names are pairs of a prefix and a name.
AgentChannel(agent_name) == <<"linc:agent:", agent_name>>
AGENT_CHANNELS == [system |-> <<"linc:", "system">>]
Channels == {AgentChannel("masterlinc"), AGENT_CHANNELS["system"]}
\* The callables given to subscribe.
Handlers == {"_handle_direct_message", "_handle_system_message"}
\* The body of a message on the wire: a JSON document, or bytes that
\* json.loads rejects.
Bodies == {"json", "undecodable"}

\* Messages the pubsub connection has received so far.
Received == Len(inbox) + Len(handled)

\* MessageBroker.subscribe(channel, handler): one connect attempt when the
\* broker is not connected; pubsub.subscribe raises when there is no pubsub
\* object or the server is unreachable, which is logged and nothing else
\* happens.  Otherwise the handler replaces whatever subscribers held for
\* the channel, and one more _listen_for_messages task is created.
Subscribe(channel, handler, redisUp) ==
    /\ listeners < MaxListeners
    /\ LET connected == publish_connected(brokerConnected[MessengerBroker],
                                          redisUp)
           ok == connected /\ redisUp
       IN  /\ brokerConnected' =
                [brokerConnected EXCEPT ![MessengerBroker] = connected]
           /\ subscribers' = IF ok THEN Put(subscribers, channel, handler)
                             ELSE subscribers
           /\ pubsubChannels' = IF ok THEN pubsubChannels \cup {channel}
                                ELSE pubsubChannels
           /\ listeners' = IF ok THEN listeners + 1 ELSE listeners
           /\ registered' = IF ok THEN registered \cup {<<channel, handler>>}
                            ELSE registered
    /\ UNCHANGED <<now, agents, procState, hbTask, events, sendVars,
                   engineVars, healthVars, authVars, rowVars, routeVars, inbox,
                   handled>>

\* MessageBroker.unsubscribe(channel): pubsub.unsubscribe, then the entry
\* of the channel is deleted; an exception of pubsub.unsubscribe is logged
\* and the entry stays.
Unsubscribe(channel, redisUp) ==
    /\ LET ok == brokerConnected[MessengerBroker] /\ redisUp
       IN  /\ subscribers' = IF ok /\ channel \in DOMAIN subscribers
                             THEN Drop(subscribers, channel)
                             ELSE subscribers
           /\ pubsubChannels' = IF ok THEN pubsubChannels \ {channel}
                                ELSE pubsubChannels
    /\ registered' = {r \in registered : r[1] # channel}
    /\ UNCHANGED <<now, registryVars, events, sendVars, engineVars, healthVars,
                   authVars, rowVars, routeVars, inbox, listeners, handled>>

\* AgentMessenger.broadcast_to_type: the message given to publish.
BroadcastMessage(from_agent, agent_type, message_type, payload) ==
    [channel |-> AGENT_CHANNELS[agent_type], from_agent |-> from_agent,
     message_type |-> message_type, payload |-> payload,
     broadcast |-> TRUE]

\* The server hands a message published on a channel to every connection
\* subscribed to it: here, to the pubsub connection of the messenger.
Fanout(channel, body) ==
    IF channel \in pubsubChannels
    THEN Append(inbox, [channel |-> channel, body |-> body])
    ELSE inbox

\* POST /system/broadcast: messenger.broadcast_to_type publishes the message
\* on the channel of the target type; an unknown type publishes nothing.
Broadcast(target_type, redisUp) ==
    /\ Running("masterlinc")
    /\ Len(published) < MaxMsgs
    /\ Received < MaxMsgs
    /\ IF target_type \in DOMAIN AGENT_CHANNELS
       THEN /\ brokerConnected' =
                 [brokerConnected EXCEPT ![MessengerBroker] =
                     publish_connected(brokerConnected[MessengerBroker],
                                       redisUp)]
            /\ published' =
                 IF publish_sent(redisUp)
                 THEN Append(published,
                             BroadcastMessage("masterlinc", target_type,
                                              "notice", EmptyDict))
                 ELSE published
            /\ inbox' = IF publish_sent(redisUp)
                        THEN Fanout(AGENT_CHANNELS[target_type], "json")
                        ELSE inbox
       ELSE UNCHANGED <<brokerConnected, published, inbox>>
    /\ UNCHANGED <<now, agents, procState, hbTask, events, sendVars,
                   active_workflows, execQueue, dispatchLog, healthVars,
                   authVars, rowVars, routeVars, subscribers, pubsubChannels,
                   listeners, handled, registered>>

\* Another client of the server publishes a body on a channel.
ForeignPublish(channel, body) ==
    /\ Received < MaxMsgs
    /\ channel \in pubsubChannels
    /\ inbox' = Fanout(channel, body)
    /\ UNCHANGED <<now, registryVars, events, sendVars, engineVars, healthVars,
                   authVars, rowVars, routeVars, subscribers, pubsubChannels,
                   listeners, handled, registered>>

\* One iteration of the loop of _listen_for_messages for the message m,
\* in a broker with n running listener tasks: the handlers it calls, how
\* the iteration ends and the number of tasks that run afterwards.  The
\* body is decoded outside the inner try: a body json.loads rejects ends the
\* task in the outer except.  An exception of the handler is caught by the
\* inner except and the loop goes on.
_listen_for_messages_uncaught(subs, n, m, raises) ==
    IF m.body = "undecodable"
    THEN [handlers |-> {}, outcome |-> "listener_stopped", listeners |-> n - 1]
    ELSE IF m.channel \in DOMAIN subs
    THEN [handlers |-> {subs[m.channel]},
          outcome |-> IF raises THEN "raised" ELSE "returned",
          listeners |-> IF raises THEN n - 1 ELSE n]
    ELSE [handlers |-> {}, outcome |-> "no_handler", listeners |-> n]

_listen_for_messages(subs, n, m, raises) ==
    IF m.body = "undecodable"
    THEN [handlers |-> {}, outcome |-> "listener_stopped", listeners |-> n - 1]
    ELSE IF m.channel \in DOMAIN subs
    THEN [handlers |-> {subs[m.channel]},
          outcome |-> IF raises THEN "raised" ELSE "returned",
          listeners |-> n]
    ELSE [handlers |-> {}, outcome |-> "no_handler", listeners |-> n]

\* A running listener task reads the next message of the connection.
Dispatch_everyTask(raises) ==
    /\ listeners > 0
    /\ inbox # <<>>
    /\ LET m == Head(inbox)
           r == _listen_for_messages(subscribers, listeners, m, raises)
           e == [channel |-> m.channel, body |-> m.body,
                 handlers |-> r.handlers, outcome |-> r.outcome]
       IN  /\ handled' = IF listeners > 1 THEN handled \o <<e, e>>
                         ELSE Append(handled, e)
           /\ listeners' = r.listeners
    /\ inbox' = Tail(inbox)
    /\ UNCHANGED <<now, registryVars, events, sendVars, engineVars, healthVars,
                   authVars, rowVars, routeVars, subscribers, pubsubChannels,
                   registered>>

Dispatch(raises) ==
    /\ listeners > 0
    /\ inbox # <<>>
    /\ LET m == Head(inbox)
           r == _listen_for_messages(subscribers, listeners, m, raises)
       IN  /\ handled' = Append(handled,
                               [channel |-> m.channel, body |-> m.body,
                                handlers |-> r.handlers,
                                outcome |-> r.outcome])
           /\ listeners' = r.listeners
    /\ inbox' = Tail(inbox)
    /\ UNCHANGED <<now, registryVars, events, sendVars, engineVars, healthVars,
                   authVars, rowVars, routeVars, subscribers, pubsubChannels,
                   registered>>

\* ------------------------------------------------------- user registration
\* The server processes of AuthLINC that share the users table.
Workers == {"w1", "w2"}
Usernames == {"amal", "badr"}
Emails == {"amal@example.org", "badr@example.org"}
\* UserRegistration bodies: the two unique columns they fill.
RegData == [username : Usernames, email : Emails]

\* The filter of register: a row with the username or with the email.
ExistingUser(rows, data) ==
    \E k \in 1..Len(rows) :
        rows[k].username = data.username \/ rows[k].email = data.email

\* INSERT into users at commit: the unique indexes on username and on email
\* reject a row that repeats either (IntegrityError).
InsertUser_nounique(rows, data) ==
    [ok |-> TRUE, rows |-> Append(rows, data)]

InsertUser(rows, data) ==
    IF \E k \in 1..Len(rows) :
          rows[k].username = data.username \/ rows[k].email = data.email
    THEN [ok |-> FALSE, rows |-> rows]
    ELSE [ok |-> TRUE, rows |-> Append(rows, data)]

\* register up to the result of its query: server process w takes a
\* request and reads whether a row with the username or the email exists.
RegisterQuery(w, data) ==
    /\ regTasks[w].pc \in {"idle", "done"}
    /\ regTasks' = [regTasks EXCEPT ![w] =
                       [pc |-> "checked", data |-> data,
                        found |-> ExistingUser(users, data), code |-> 0]]
    /\ UNCHANGED <<now, registryVars, events, sendVars, engineVars,
                   healthVars, users, authLog, rowVars, routeVars,
                   pubsubVars>>

\* The rest of register: 400 when the query found a row; otherwise the row
\* is inserted and committed and the answer is 200.  An IntegrityError of
\* the commit is caught by except Exception and answered with 500; the
\* session is closed and nothing was written.
RegisterCommit(w) ==
    /\ regTasks[w].pc = "checked"
    /\ LET r == InsertUser(users, regTasks[w].data)
       IN  IF regTasks[w].found
           THEN /\ users' = users
                /\ regTasks' = [regTasks EXCEPT ![w].pc = "done",
                                                ![w].code = 400]
           ELSE /\ users' = r.rows
                /\ regTasks' = [regTasks EXCEPT
                                   ![w].pc = "done",
                                   ![w].code = IF r.ok THEN 200 ELSE 500]
    /\ UNCHANGED <<now, registryVars, events, sendVars, engineVars,
                   healthVars, authLog, rowVars, routeVars, pubsubVars>>

\* ---------------------------------------------------------- authentication
\* What a request carries in its Authorization header: nothing, a token
\* whose signature does not verify, an expired token, a signed token
\* without a sub claim, or a signed token of the named user.
Credentials ==
    {[kind |-> "none", sub |-> None],
     [kind |-> "bad_signature", sub |-> "amal"],
     [kind |-> "expired", sub |-> "amal"],
     [kind |-> "no_sub", sub |-> None],
     [kind |-> "signed", sub |-> "amal"],
     [kind |-> "signed", sub |-> "nobody"]}

\* HTTPBearer, then verify_token: 403 without a bearer header, 401 when
\* jwt.decode raises JWTError or the payload has no sub, else the username.
verify_token(credentials) ==
    IF credentials.kind = "none"
    THEN [code |-> 403, username |-> None]
    ELSE IF credentials.kind \in {"bad_signature", "expired", "no_sub"}
    THEN [code |-> 401, username |-> None]
    ELSE [code |-> 200, username |-> credentials.sub]

\* The id of the first row with the username (0: there is none).
UserIdOf(rows, username) ==
    LET matching == {k \in 1..Len(rows) : rows[k].username = username}
    IN  IF matching = {} THEN 0
        ELSE CHOOSE k \in matching : \A j \in matching : k <= j

\* get_current_user: the user row of the verified username, 401 when the
\* users table has no such row.
get_current_user_unchecked(credentials, rows) ==
    LET v == verify_token(credentials)
    IN  IF v.code # 200 THEN [code |-> v.code, user_id |-> 0]
        ELSE [code |-> 200, user_id |-> UserIdOf(rows, v.username)]

get_current_user(credentials, rows) ==
    LET v == verify_token(credentials)
    IN  IF v.code # 200 THEN [code |-> v.code, user_id |-> 0]
        ELSE IF UserIdOf(rows, v.username) = 0
        THEN [code |-> 401, user_id |-> 0]
        ELSE [code |-> 200, user_id |-> UserIdOf(rows, v.username)]

\* POST /workflow/route with the given credentials: the dependency
\* get_current_user is resolved before the body of route_workflow runs, and
\* its HTTPException is the response.
RouteRequest(i, context, credentials) ==
    /\ Running("masterlinc")
    /\ Len(authLog) < MaxRequests
    /\ LET auth == get_current_user(credentials, users)
       IN  /\ authLog' = Append(authLog, [credentials |-> credentials,
                                          code |-> auth.code])
           /\ IF auth.code = 200
              THEN /\ Cardinality(DOMAIN execQueue) < MaxWorkflows
                   /\ RouteEffect(i, context, auth.user_id)
              ELSE UNCHANGED <<execQueue, routed>>
    /\ UNCHANGED <<now, registryVars, events, sendVars, active_workflows,
                   published, dispatchLog, healthVars, users, regTasks,
                   rowVars, replies, pubsubVars>>

\* ------------------------------------------------- concurrent registration
\* Processes that start at the same time on one database, and the name
\* each registers: two replicas of customlinc and masterlinc.
Starters == {"s1", "s2", "s3"}
StarterName == [s1 |-> "customlinc", s2 |-> "customlinc",
                s3 |-> "masterlinc"]
\* The seed rows in the order seed_initial_data adds them.
SeedOrder == <<"masterlinc", "doctorlinc">>

\* The rows with the given name.
RowsNamed(rows, name) == {k \in 1..Len(rows) : rows[k].name = name}

\* INSERT of rows into agents at commit: the unique index on name rejects
\* the whole transaction when a row with one of the names exists
\* (IntegrityError).
InsertAgents_nounique(rows, new) ==
    [ok |-> TRUE, rows |-> rows \o new]

InsertAgents(rows, new) ==
    IF \E k \in 1..Len(new) : RowsNamed(rows, new[k].name) # {}
    THEN [ok |-> FALSE, rows |-> rows]
    ELSE [ok |-> TRUE, rows |-> rows \o new]

\* seed_initial_data up to the result of db.query(Agent).first().
SeedQuery(st) ==
    /\ sessions[st].pc = "init"
    /\ sessions' = [sessions EXCEPT ![st] =
                       [pc |-> "seed_checked", found |-> agentRows # <<>>]]
    /\ UNCHANGED <<now, registryVars, events, sendVars, engineVars,
                   healthVars, authVars, agentRows, routeVars, pubsubVars>>

\* The rest of seed_initial_data: nothing when the query saw a row;
\* otherwise the seed rows are added and committed in one transaction.  An
\* IntegrityError is re-raised by get_db_session and by _startup_event: the
\* process does not start.
SeedCommit(st) ==
    /\ sessions[st].pc = "seed_checked"
    /\ LET r == InsertAgents(agentRows,
                             [k \in 1..Len(SeedOrder) |->
                                 [name |-> SeedOrder[k],
                                  status |-> "offline"]])
       IN  IF sessions[st].found
           THEN /\ agentRows' = agentRows
                /\ sessions' = [sessions EXCEPT ![st].pc = "seeded"]
           ELSE /\ agentRows' = r.rows
                /\ sessions' = [sessions EXCEPT
                                   ![st].pc = IF r.ok THEN "seeded"
                                              ELSE "failed"]
    /\ UNCHANGED <<now, registryVars, events, sendVars, engineVars,
                   healthVars, authVars, routeVars, pubsubVars>>

\* _register_agent up to the result of its query by name.
RegisterAgentQuery(st) ==
    /\ sessions[st].pc = "seeded"
    /\ sessions' = [sessions EXCEPT ![st] =
                       [pc |-> "reg_checked",
                        found |-> RowsNamed(agentRows, StarterName[st]) # {}]]
    /\ UNCHANGED <<now, registryVars, events, sendVars, engineVars,
                   healthVars, authVars, agentRows, routeVars, pubsubVars>>

\* The rest of _register_agent: the row the query found is updated, or a
\* new row is added; then the commit.  An IntegrityError of the commit is
\* caught and logged, and startup goes on.
RegisterAgentCommit(st) ==
    /\ sessions[st].pc = "reg_checked"
    /\ LET name == StarterName[st]
           r == InsertAgents(agentRows,
                             <<[name |-> name, status |-> "online"]>>)
       IN  agentRows' =
              IF sessions[st].found
              THEN [k \in 1..Len(agentRows) |->
                      IF agentRows[k].name = name
                      THEN [agentRows[k] EXCEPT !.status = "online"]
                      ELSE agentRows[k]]
              ELSE r.rows
    /\ sessions' = [sessions EXCEPT ![st].pc = "registered"]
    /\ UNCHANGED <<now, registryVars, events, sendVars, engineVars,
                   healthVars, authVars, routeVars, pubsubVars>>

\* ---------------------------------------------------------- specifications
Init ==
    /\ now = 0
    /\ agents = <<>>
    /\ procState = [p \in Procs |-> "init"]
    /\ hbTask = [p \in Procs |-> "none"]
    /\ brokerConnected = [b \in Brokers |-> FALSE]
    /\ events = <<>>
    /\ messages = <<>>
    /\ tasks = <<>>
    /\ active_workflows = <<>>
    /\ execQueue = <<>>
    /\ published = <<>>
    /\ dispatchLog = <<>>
    /\ healthCache = <<>>
    /\ lastCheck = [agent_type |-> None, cached |-> None, probed |-> FALSE,
                    outcome |-> None, stored |-> FALSE, result |-> FALSE,
                    raised |-> FALSE]
    /\ lastManual = [agent |-> None, code |-> 0, probed |-> FALSE,
                     outcome |-> None, status |-> None, raised |-> FALSE]
    /\ lastRoute = [agent_type |-> None, checked |-> FALSE,
                    healthy |-> FALSE, forwarded |-> FALSE,
                    store_ok |-> FALSE, logged |-> <<>>, raised |-> FALSE]
    /\ routed = <<>>
    /\ replies = <<>>
    /\ subscribers = <<>>
    /\ pubsubChannels = {}
    /\ inbox = <<>>
    /\ listeners = 0
    /\ handled = <<>>
    /\ registered = {}
    /\ users = <<>>
    /\ regTasks = [w \in Workers |->
                     [pc |-> "idle", data |-> [username |-> None,
                                               email |-> None],
                      found |-> FALSE, code |-> 0]]
    /\ authLog = <<>>
    /\ agentRows = <<>>
    /\ sessions = [st \in Starters |-> [pc |-> "init", found |-> FALSE]]

\* The workflow engine of MasterLINC: routing requests, the background
\* _execute_workflow tasks and the workflow callbacks it receives.  No other
\* operation writes the workflow map, the task queue or the messenger.
EngineIntents == {1, 2}
NextEngine ==
    \/ Startup("masterlinc", TRUE)
    \/ \E i \in EngineIntents, c \in Contexts, u \in UserIds :
          RouteWorkflow(i, c, u)
    \/ \E w \in DOMAIN execQueue : ExecuteStore(w)
    \/ \E w \in DOMAIN execQueue : ExecuteDispatch(w)
    \/ \E m \in WorkflowMessages :
          ReceiveMessage("masterlinc", "doctorlinc", m, None)

SpecEngine == Init /\ [][NextEngine]_vars

\* The registry: the lifecycle of the agent processes and the
\* agent_registration messages MasterLINC receives.
NextRegistry ==
    \/ \E p \in Procs, redisUp \in BOOLEAN : Startup(p, redisUp)
    \/ \E p \in Procs : Heartbeat(p)
    \/ \E p \in Procs : ShutdownBegin(p)
    \/ \E p \in Procs : ShutdownEnd(p)
    \/ Tick
    \/ \E f \in Names, m \in RegistrationMessages :
          ReceiveMessage("masterlinc", f, m, None)

SpecRegistry == Init /\ [][NextRegistry]_vars

\* Point-to-point delivery between the agent processes, at one instant.
NextSend ==
    \/ \E p \in Procs : Startup(p, TRUE)
    \/ \E p \in Procs : Heartbeat(p)
    \/ \E p \in Procs : ShutdownBegin(p)
    \/ \E p \in Procs : ShutdownEnd(p)
    \/ \E t \in SendTargets, m \in SendMessages, c \in CorrIds :
          SendMessage("customlinc", t, m, c)
    \/ \E i \in 1..Len(tasks) : SendStart(i)
    \/ \E i \in 1..Len(tasks) : DeliverRequest(i)
    \/ \E i \in 1..Len(tasks) : SendOk(i)
    \/ \E i \in 1..Len(tasks),
          cause \in {"connect_error", "http_error", "timeout"} :
          SendError(i, cause)

SpecSend == Init /\ [][NextSend]_vars

\* Direct sends under the scheduling of the event loop: the timeout of
\* client.post (30 s) fires for a request that stays unanswered while the
\* loop of the sender runs.
NextSendFair ==
    \/ \E p \in Procs : Startup(p, TRUE)
    \/ \E p \in Procs : Heartbeat(p)
    \/ \E p \in Procs : ShutdownBegin(p)
    \/ \E p \in Procs : ShutdownEnd(p)
    \/ \E t \in SendTargets, m \in SendMessages, c \in CorrIds :
          /\ Len(messages) < MaxPending
          /\ SendMessage("customlinc", t, m, c)
    \/ \E i \in 1..Len(tasks) : SendStart(i)
    \/ \E i \in 1..Len(tasks) : DeliverRequest(i)
    \/ \E i \in 1..Len(tasks) : SendOk(i)
    \/ \E i \in 1..Len(tasks),
          cause \in {"connect_error", "http_error", "timeout"} :
          SendError(i, cause)

SpecSendFair ==
    /\ Init
    /\ [][NextSendFair]_vars
    /\ \A i \in 1..MaxPending : WF_vars(SendError(i, "timeout"))

\* Delivery from masterlinc while time passes: customlinc starts, sends
\* heartbeats and shuts down; doctorlinc is registered as online by an
\* agent_registration message and runs no heartbeat loop.
StaleTargets == {"customlinc", "doctorlinc"}
NextStale ==
    \/ \E p \in Procs : Startup(p, TRUE)
    \/ \E p \in Procs : Heartbeat(p)
    \/ ShutdownBegin("customlinc")
    \/ ShutdownEnd("customlinc")
    \/ Tick
    \/ ReceiveMessage("masterlinc", "doctorlinc",
                      <<"agent_registration",
                        [type |-> "custom", status |-> "online"]>>, None)
    \/ \E t \in StaleTargets :
          SendMessage("masterlinc", t, <<"notification", [text |-> "hi"]>>,
                      None)
    \/ \E i \in 1..Len(tasks) : SendStart(i)
    \/ \E i \in 1..Len(tasks) : DeliverRequest(i)
    \/ \E i \in 1..Len(tasks) : SendOk(i)
    \/ \E i \in 1..Len(tasks) : SendError(i, "timeout")

SpecStale == Init /\ [][NextStale]_vars

\* The health checks of the OrchestrationService while time passes, and
\* the manual health check of MasterLINC.
NextHealth ==
    \/ Tick
    \/ \E a \in AgentTypes, getOk \in BOOLEAN, o \in ProbeOutcomes,
          setOk \in BOOLEAN : CheckAgentHealth(a, getOk, o, setOk)
    \/ Startup("masterlinc", TRUE)
    \/ \E n \in SeedNames \cup {GhostName}, o \in ManualOutcomes :
          HealthCheckAgent(n, o)

SpecHealth == Init /\ [][NextHealth]_vars

\* The requests routed through the OrchestrationService, to its agent
\* types and to a type it has no URL for.  The cache entries written by
\* the checks of these requests are read by the later ones.
UnknownType == "radiology"
NextOrchestration ==
    \/ \E a \in AgentTypes, getOk \in BOOLEAN, o \in ProbeOutcomes,
          setOk \in BOOLEAN, f \in ForwardOutcomes, logOk \in BOOLEAN :
          OrchestrationRouteRequest(a, getOk, o, setOk, f, logOk)
    \/ OrchestrationRouteRequest(UnknownType, TRUE, "200", TRUE, "200", TRUE)

SpecOrchestration == Init /\ [][NextOrchestration]_vars

\* The router: every modelled text, with and without a context.
NextRoute ==
    \/ Startup("masterlinc", TRUE)
    \/ \E i \in 1..Len(Intents), c \in Contexts, u \in UserIds :
          RouteWorkflow(i, c, u)

SpecRoute == Init /\ [][NextRoute]_vars

\* The messenger of MasterLINC as publisher and subscriber.
NextPubSub ==
    \/ Startup("masterlinc", TRUE)
    \/ \E c \in Channels, h \in Handlers, redisUp \in BOOLEAN :
          Subscribe(c, h, redisUp)
    \/ \E c \in Channels, redisUp \in BOOLEAN : Unsubscribe(c, redisUp)
    \/ \E redisUp \in BOOLEAN : Broadcast("system", redisUp)
    \/ \E c \in Channels, b \in Bodies : ForeignPublish(c, b)
    \/ \E raises \in BOOLEAN : Dispatch(raises)

SpecPubSub == Init /\ [][NextPubSub]_vars

\* Registrations of users by the server processes of AuthLINC.
NextUsers ==
    \/ \E w \in Workers, data \in RegData : RegisterQuery(w, data)
    \/ \E w \in Workers : RegisterCommit(w)

SpecUsers == Init /\ [][NextUsers]_vars

\* The routing endpoint behind its authentication dependency: a user
\* registers, requests arrive with every kind of credentials, and the
\* accepted ones are executed.
AmalData == [username |-> "amal", email |-> "amal@example.org"]
NextAuth ==
    \/ Startup("masterlinc", TRUE)
    \/ RegisterQuery("w1", AmalData)
    \/ RegisterCommit("w1")
    \/ \E cr \in Credentials : RouteRequest(1, EmptyDict, cr)
    \/ \E w \in DOMAIN execQueue : ExecuteStore(w)
    \/ \E w \in DOMAIN execQueue : ExecuteDispatch(w)

SpecAuth == Init /\ [][NextAuth]_vars

\* Processes starting concurrently on one database.
NextRows ==
    \/ \E st \in Starters : SeedQuery(st)
    \/ \E st \in Starters : SeedCommit(st)
    \/ \E st \in Starters : RegisterAgentQuery(st)
    \/ \E st \in Starters : RegisterAgentCommit(st)

SpecRows == Init /\ [][NextRows]_vars

TypeOK ==
    /\ now \in 0..MaxTime
    /\ DOMAIN agents \subseteq Names
    /\ Len(messages) = Len(tasks)
    /\ Len(messages) <= MaxMsgs
    /\ DOMAIN active_workflows \subseteq DOMAIN execQueue
    /\ Len(routed) = Cardinality(DOMAIN execQueue)
    /\ Len(authLog) <= MaxRequests
    /\ \A k \in 1..Len(users) : users[k] \in RegData
    /\ \A k \in 1..Len(agentRows) : agentRows[k].name \in Names
    /\ Len(replies) = Len(events)
    /\ DOMAIN subscribers \subseteq Channels
    /\ pubsubChannels \subseteq Channels
    /\ listeners \in 0..MaxListeners
    /\ Received <= MaxMsgs
    /\ registered \subseteq Channels \X Handlers

\* ------------------------------------------------------------------ claims
\* The last row of system_events was written in this step for a message of
\* the given type.
ReceivedNow(message_type) ==
    /\ Len(events') = Len(events) + 1
    /\ events'[Len(events')].message_type = message_type

\* last_heartbeat of the row is older than the registry TTL.
Stale(tbl, name, t) == t - tbl[name].last_heartbeat > AgentRegistryTtl

\* C1: a workflow instance whose status is completed or error keeps its
\* status, its error and its completed_at in every later step.
C1_TerminalStatusIsFinal ==
    [][\A w \in DOMAIN active_workflows :
          active_workflows[w].status \in {"completed", "error"} =>
             /\ w \in DOMAIN active_workflows'
             /\ active_workflows'[w].status = active_workflows[w].status
             /\ active_workflows'[w].error = active_workflows[w].error
             /\ active_workflows'[w].completed_at =
                   active_workflows[w].completed_at]_vars

\* C2: when a direct send has failed, the InterAgentMessage row persisted
\* for that send has status failed, with or without a correlation id given
\* by the caller.
C2_FailedSendMarksRecordFailed ==
    \A i \in 1..Len(tasks) :
        (tasks[i].pc = "done" /\ tasks[i].cause # None) =>
            messages[i].status = "failed"

\* C3: when the peer answered a direct send with success, the row persisted
\* for that send is delivered and has processed_at set.
C3_SuccessfulSendMarksDelivered ==
    \A i \in 1..Len(tasks) :
        tasks[i].result = "returned_response" =>
            /\ messages[i].status = "delivered"
            /\ messages[i].processed_at # NoTime

\* C4: the receiver applies the side effect of a caller-given correlation
\* id at most once: masterlinc logs at most one received event for it.
C4_SameCorrelationIdHandledOnce ==
    \A c \in CorrIds \ {None} :
        Cardinality({k \in 1..Len(events) :
                        /\ events[k].agent_name = "masterlinc"
                        /\ events[k].correlation_id = c}) <= 1

\* C5: a direct delivery call that did not deliver the message raises a
\* typed error to its caller; it does not return normally.
C5_UndeliveredSendRaises ==
    \A i \in 1..Len(tasks) :
        tasks[i].cause \in {"not_found", "not_online", "connect_error",
                            "http_error"} =>
            tasks[i].result = "raised"

\* C6: when the dispatch of the workflow_request of an executing instance
\* fails, the instance becomes error and the delivery error is recorded.
C6_FailedDispatchMarksError ==
    [][\A w \in DOMAIN dispatchLog' :
          (/\ w \notin DOMAIN dispatchLog
           /\ dispatchLog'[w] = "dropped"
           /\ w \in DOMAIN active_workflows
           /\ active_workflows[w].status = "executing") =>
             /\ active_workflows'[w].status = "error"
             /\ active_workflows'[w].error # None]_vars

\* C7: no direct send issues its request to an agent whose last_heartbeat
\* is older than the registry TTL, whatever its persisted status.
C7_NoSendToStaleAgent ==
    [][\A i \in 1..Len(tasks) :
          (tasks[i].pc = "queued" /\ tasks'[i].pc = "inflight") =>
             ~Stale(agents, tasks[i].to_agent, now)]_vars

\* C8: right after a registration, at startup or through an
\* agent_registration message, the agent has a row with status online and
\* last_heartbeat equal to the time of the registration.
C8_RegisterThenGetIsOnline ==
    [][/\ \A p \in Procs :
            (procState[p] = "init" /\ procState'[p] = "running") =>
               /\ p \in DOMAIN agents'
               /\ agents'[p].status = "online"
               /\ agents'[p].last_heartbeat = now
       /\ ReceivedNow("agent_registration") =>
            LET f == events'[Len(events')].from_agent
            IN  /\ f \in DOMAIN agents'
                /\ agents'[f].status = "online"
                /\ agents'[f].last_heartbeat = now]_vars

\* C9: once the shutdown handler of a process has set its status to
\* offline, no heartbeat iteration of that process sets it to online.
C9_NoHeartbeatAfterShutdown ==
    [][\A p \in Procs :
          (/\ procState[p] \in {"stopping", "stopped"}
           /\ hbTask[p] = "due"
           /\ hbTask'[p] = "sleeping") =>
             ~(p \in DOMAIN agents' /\ agents'[p].status = "online")]_vars

\* C10 as stated: a query that finds an unexpired unhealthy verdict in the
\* cache returns false and issues no probe.
C10_UnhealthyVerdictIsServed ==
    lastCheck.cached = "unhealthy" =>
        (~lastCheck.probed /\ ~lastCheck.result)

\* C10 as amended: a query that finds an unexpired unhealthy verdict in
\* the cache issues a new probe, and returns true only when that probe
\* answers 200.
C10_UnhealthyVerdictIsReprobed ==
    lastCheck.cached = "unhealthy" =>
        (lastCheck.probed /\ (lastCheck.result => lastCheck.outcome = "200"))

\* A query found an unhealthy verdict cached, probed again and the peer
\* had recovered.
C10_Witness ==
    /\ lastCheck.cached = "unhealthy"
    /\ lastCheck.probed
    /\ lastCheck.result

\* The text contains no keyword of any agent.
NoKeyword(user_intent) ==
    \A a \in DOMAIN intent_keywords : KeywordCount(a, lower(user_intent)) = 0

\* The score the claims give an agent for a text: matching keywords over
\* profile size, as a fraction.
ProfileScore(a, user_intent) ==
    <<KeywordCount(a, lower(user_intent)), Len(intent_keywords[a])>>

\* C11: a routing request whose text contains no keyword of any agent is
\* answered with a plan whose primary agent is chatlinc, chosen with the
\* one score 0.8 whatever the text is.
C11_NoKeywordRoutesToFallback ==
    \A k \in 1..Len(routed) :
        NoKeyword(routed[k].user_intent) =>
            /\ routed[k].response.primary_agent = "chatlinc"
            /\ DOMAIN routed[k].agent_scores = {"chatlinc"}
            /\ routed[k].agent_scores["chatlinc"] = FallbackScore
            /\ Len(routed[k].response.steps) >= 1

\* Two different texts without any keyword were routed, one of them not
\* empty, and both went to chatlinc.
C11_Witness ==
    \E k1, k2 \in 1..Len(routed) :
        /\ routed[k1].user_intent # routed[k2].user_intent
        /\ Len(routed[k1].user_intent) > 0
        /\ NoKeyword(routed[k1].user_intent)
        /\ NoKeyword(routed[k2].user_intent)
        /\ routed[k1].response.primary_agent = "chatlinc"
        /\ routed[k2].response.primary_agent = "chatlinc"

\* C12: the primary agent of every plan is a profiled agent whose score no
\* profiled agent exceeds; when some agent has a matching keyword, the
\* primary agent has one too.
C12_PrimaryHasMaximalScore ==
    \A k \in 1..Len(routed) :
        LET text == routed[k].user_intent
            primary_agent == routed[k].response.primary_agent
        IN  /\ primary_agent \in DOMAIN intent_keywords
            /\ \A a \in DOMAIN intent_keywords :
                  ~ScoreLess(ProfileScore(primary_agent, text),
                             ProfileScore(a, text))
            /\ ~NoKeyword(text) =>
                  ProfileScore(primary_agent, text)[1] > 0

\* A text was routed for which an agent later in the dictionary scores
\* higher than an earlier one that also matches, and the later one was
\* made primary.
C12_Witness ==
    \E k \in 1..Len(routed) :
        /\ routed[k].response.primary_agent = "paylinc"
        /\ "doctorlinc" \in DOMAIN routed[k].agent_scores
        /\ ScoreLess(routed[k].agent_scores["doctorlinc"],
                     routed[k].agent_scores["paylinc"])

\* The keys of a dictionary iterated from the last inserted to the first.
Reversed(order) == [i \in 1..Len(order) |-> order[Len(order) + 1 - i]]

C14_StepsFollowAgents ==
    \A k \in 1..Len(routed) :
        LET plan == routed[k].response
            n == 1 + Len(plan.supporting_agents)
        IN  /\ plan.supporting_agents =
                  _get_supporting_agents(plan.primary_agent)
            /\ Len(plan.steps) = n
            /\ \A i \in 1..n : plan.steps[i].step = i
            /\ plan.steps[1].agent = plan.primary_agent
            /\ plan.steps[1].action = "process_request"
            /\ plan.steps[1].status = "pending"
            /\ \A i \in 1..Len(plan.supporting_agents) :
                  /\ plan.steps[i + 1].agent = plan.supporting_agents[i]
                  /\ plan.steps[i + 1].action = "support_processing"
                  /\ plan.steps[i + 1].status = "waiting"

\* A plan with two supporting agents and a plan with none were returned.
C14_Witness ==
    \E k1, k2 \in 1..Len(routed) :
        /\ Len(routed[k1].response.supporting_agents) = 2
        /\ Len(routed[k1].response.steps) = 3
        /\ Len(routed[k2].response.supporting_agents) = 0
        /\ Len(routed[k2].response.steps) = 1

\* The routing request that was answered with workflow id w.
RequestOf(w) ==
    routed[CHOOSE k \in 1..Len(routed) : routed[k].response.workflow_id = w]

\* C15: the execution of a plan stores the instance under its workflow id
\* with status executing, and the workflow_request it sends is one message
\* to the primary agent of the plan that carries the workflow id, the
\* requesting user and the context of the routing request.
C15_RequestCarriesContext ==
    [][\A w \in DOMAIN execQueue :
          /\ (execQueue[w].pc = "scheduled" /\ execQueue'[w].pc = "dispatching")
                => /\ w \in DOMAIN active_workflows'
                   /\ active_workflows'[w].status = "executing"
          /\ (/\ execQueue[w].pc = "dispatching"
              /\ execQueue'[w].pc = "done"
              /\ dispatchLog'[w] = "published")
                => LET sent == published'[Len(published')]
                   IN  /\ Len(published') = Len(published) + 1
                       /\ sent.message_type = "workflow_request"
                       /\ sent.to_agent = RequestOf(w).response.primary_agent
                       /\ sent.channel = AgentChannel(sent.to_agent)
                       /\ sent.payload.workflow_id = w
                       /\ sent.payload.user_id = RequestOf(w).user_id
                       /\ sent.payload.context = RequestOf(w).context]_vars

\* C16: a workflow_complete or workflow_error message that names a
\* workflow id the workflow map does not hold leaves the map as it is, and
\* the call is answered with the acknowledgement.
C16_UnknownWorkflowIsDiscarded ==
    [][(/\ \/ ReceivedNow("workflow_complete")
           \/ ReceivedNow("workflow_error")
        /\ replies'[Len(replies')].workflow_id \notin DOMAIN active_workflows)
          => /\ active_workflows' = active_workflows
             /\ replies'[Len(replies')].status = "received"
             /\ replies'[Len(replies')].response =
                   [status |-> "acknowledged"]]_vars

\* A callback named a workflow id that the map, which holds another
\* instance, never held.
C16_Witness ==
    \E k \in 1..Len(events) :
        /\ events[k].message_type \in {"workflow_complete", "workflow_error"}
        /\ replies[k].workflow_id \notin DOMAIN active_workflows
        /\ replies[k].response = [status |-> "acknowledged"]
        /\ \E w \in DOMAIN active_workflows :
              active_workflows[w].status = "executing"

\* A listener task read a message in this step.
DispatchedNow == Len(handled') = Len(handled) + 1

\* C17: a message read from a channel is handed to every handler that was
\* subscribed to the channel and not unsubscribed since, also when several
\* handlers were subscribed to the same channel.
C17_EverySubscribedHandlerIsCalled ==
    [][(DispatchedNow /\ handled'[Len(handled')].body = "json")
          => \A r \in registered :
                r[1] = handled'[Len(handled')].channel
                   => r[2] \in handled'[Len(handled')].handlers]_vars

\* C18: an iteration of the listen loop in which the handler raises leaves
\* the listener task running, and every message read after a handler has
\* raised is handed to the handler of its channel.
C18_HandlerErrorKeepsLoopRunning ==
    [][DispatchedNow =>
          LET e == handled'[Len(handled')]
          IN  /\ e.outcome = "raised" =>
                    (listeners' = listeners /\ listeners' > 0)
              /\ (/\ \E k \in 1..Len(handled) : handled[k].outcome = "raised"
                  /\ e.body = "json"
                  /\ e.channel \in DOMAIN subscribers)
                    => /\ e.handlers = {subscribers[e.channel]}
                       /\ e.outcome \in {"returned", "raised"}]_vars

\* The only listener task of the broker called a handler that raised, and
\* called a handler for the next message.
C18_Witness ==
    /\ listeners = 1
    /\ \A k \in 1..Len(handled) : handled[k].outcome # "listener_stopped"
    /\ \E k \in 1..(Len(handled) - 1) :
          /\ handled[k].outcome = "raised"
          /\ handled[k + 1].outcome = "returned"
          /\ handled[k + 1].handlers # {}

\* An iteration of the heartbeat loop of process p ran in this step.
HeartbeatNow(p) ==
    hbTask[p] \in {"created", "due"} /\ hbTask'[p] = "sleeping"

\* C19: a heartbeat of one agent leaves the record of every other agent as
\* it is, and changes nothing but status and last_heartbeat in its own.
C19_HeartbeatTouchesOwnRecordOnly ==
    [][\A p \in Procs :
          HeartbeatNow(p) =>
             /\ DOMAIN agents' = DOMAIN agents
             /\ \A n \in DOMAIN agents : n # p => agents'[n] = agents[n]
             /\ p \in DOMAIN agents =>
                   /\ agents'[p].type = agents[p].type
                   /\ agents'[p].version = agents[p].version]_vars

\* masterlinc has sent a heartbeat at the current time while the heartbeat
\* of customlinc is due: the record of customlinc keeps its older
\* last_heartbeat.
C19_Witness ==
    /\ hbTask["masterlinc"] = "sleeping"
    /\ hbTask["customlinc"] = "due"
    /\ {"masterlinc", "customlinc"} \subseteq DOMAIN agents
    /\ agents["masterlinc"].last_heartbeat = now
    /\ agents["customlinc"].last_heartbeat < now
    /\ agents["customlinc"].status = "online"

\* C20: a name that is in the agents table stays in it in every step, and
\* the shutdown of a process sets the status of its record to offline and
\* changes no other record.
C20_NamesAreNeverRemoved ==
    [][/\ DOMAIN agents \subseteq DOMAIN agents'
       /\ \A p \in Procs :
             (procState[p] = "running" /\ procState'[p] = "stopping") =>
                /\ \A n \in DOMAIN agents : n # p => agents'[n] = agents[n]
                /\ p \in DOMAIN agents =>
                      /\ agents'[p].status = "offline"
                      /\ agents'[p].type = agents[p].type
                      /\ agents'[p].version = agents[p].version]_vars

\* The values the status column of an agent row is documented to take.
AgentStatuses == {"online", "offline", "error", "maintenance"}

\* C22: the status of every agent row is one of online, offline, error and
\* maintenance, whatever an agent_registration payload supplied.
C22_StatusInEnumeration ==
    \A n \in DOMAIN agents : agents[n].status \in AgentStatuses

\* A registration payload with one field the Agent class knows and one it
\* does not know.
UnknownFieldPayload == [type |-> "custom", bogus |-> "x"]

\* C23: an agent_registration whose payload has a field unknown to the
\* agent schema succeeds for a new agent as for an existing one: after the
\* step the sender has a row that carries the known field of the payload.
C23_UnknownFieldsAreIgnored ==
    [][\A f \in Names :
          (/\ ReceivedNow("agent_registration")
           /\ events'[Len(events')].from_agent = f
           /\ agents' = _handle_agent_registration(agents, f,
                                                   UnknownFieldPayload, now))
             => /\ f \in DOMAIN agents'
                /\ agents'[f].type = UnknownFieldPayload.type]_vars

\* C27: a row of inter_agent_messages whose status is delivered or failed
\* keeps that status in every later step, also when a later send with the
\* same correlation id succeeds or fails.
C27_TerminalMessageStatusIsFinal ==
    [][\A i \in 1..Len(messages) :
          messages[i].status \in {"delivered", "failed"} =>
             messages'[i].status = messages[i].status]_vars

\* Two sends carried the same correlation id; the row of the earlier one is
\* failed and the later send has failed as well.
C27_Witness ==
    \E i, j \in 1..Len(messages) :
        /\ i < j
        /\ messages[i].correlation_id = messages[j].correlation_id
        /\ messages[i].status = "failed"
        /\ tasks[i].pc = "done"
        /\ tasks[j].pc = "done"
        /\ tasks[j].cause # None

\* C28: every point-to-point message has a row in inter_agent_messages
\* before its delivery is attempted: the row of a direct send exists once
\* its task has left the queue, and every workflow_request the engine has
\* handed to the transport has a row that names its workflow.
C28_PendingRecordBeforeAttempt ==
    /\ \A i \in 1..Len(tasks) :
          tasks[i].pc # "queued" =>
             /\ i <= Len(messages)
             /\ messages[i].to_agent = tasks[i].to_agent
    /\ \A w \in DOMAIN dispatchLog :
          \E i \in 1..Len(messages) :
             /\ messages[i].message_type = "workflow_request"
             /\ messages[i].payload.workflow_id = w

\* The /health endpoint of the agent answers: its process runs.
Healthy(n) == n \in Procs /\ Running(n)

\* C29: a direct send issues its request only to a target that has a row
\* in the registry and is healthy.
C29_NoRequestToUnhealthyTarget ==
    [][\A i \in 1..Len(tasks) :
          (tasks[i].pc = "queued" /\ tasks'[i].pc = "inflight") =>
             /\ tasks[i].to_agent \in DOMAIN agents
             /\ Healthy(tasks[i].to_agent)]_vars

\* C30: a send call makes at most one delivery attempt: its task issues the
\* request from the queued position only, never returns to that position,
\* and stays done once it is done.
C30_AtMostOneAttempt ==
    [][\A i \in 1..Len(tasks) :
          /\ tasks[i].pc # "queued" => tasks'[i].pc # "queued"
          /\ tasks'[i].pc = "inflight" =>
                tasks[i].pc \in {"queued", "inflight"}
          /\ tasks[i].pc = "done" => tasks'[i] = tasks[i]]_vars

\* The one attempt of a send failed at the network and the call is over.
C30_Witness ==
    \E i \in 1..Len(tasks) :
        /\ tasks[i].pc = "done"
        /\ tasks[i].cause \in {"connect_error", "http_error", "timeout"}

\* C24: a health probe ends with a value, never with an exception: a cache
\* fault, a probe that fails or answers another status than 200, and a
\* verdict that cannot be stored all make check_agent_health return false;
\* in the manual check a failed probe gives status error and an answer
\* other than 200 gives unhealthy or error.
C24_ProbeFailureIsAVerdict ==
    /\ ~lastCheck.raised
    /\ (\/ lastCheck.cached = "fault"
        \/ lastCheck.probed /\ lastCheck.outcome # "200"
        \/ lastCheck.probed /\ ~lastCheck.stored) => ~lastCheck.result
    /\ ~lastManual.raised
    /\ (lastManual.probed /\ lastManual.outcome \in {"timeout", "refused"})
          => lastManual.status = "error"
    /\ (lastManual.probed /\ lastManual.outcome # "200")
          => lastManual.status \in {"unhealthy", "error"}

\* The last cached check ran into a timeout and returned false, and the
\* last manual check of a registered agent was refused and answered with
\* status error.
C24_Witness ==
    /\ lastCheck.probed
    /\ lastCheck.outcome = "timeout"
    /\ ~lastCheck.result
    /\ lastManual.code = 200
    /\ lastManual.outcome = "refused"
    /\ lastManual.status = "error"

\* C21: no two rows of the agents table have the same name, whatever the
\* interleaving of the seeding and the registrations of processes that
\* start at the same time.
C21_AgentNamesAreUnique ==
    \A k1, k2 \in 1..Len(agentRows) :
        agentRows[k1].name = agentRows[k2].name => k1 = k2

\* Both replicas of customlinc read that the name was absent before either
\* inserted it, both have committed, and the table has the name once; a
\* process that seeded at the same time as another one failed to start.
C21_Witness ==
    /\ sessions["s1"] = [pc |-> "registered", found |-> FALSE]
    /\ sessions["s2"] = [pc |-> "registered", found |-> FALSE]
    /\ sessions["s3"].pc = "failed"
    /\ Cardinality(RowsNamed(agentRows, "customlinc")) = 1
    /\ Cardinality(RowsNamed(agentRows, "masterlinc")) = 1

\* The credentials are a signed, unexpired token whose sub names a row of
\* the users table.
ValidIdentity(credentials, rows) ==
    /\ credentials.kind = "signed"
    /\ \E k \in 1..Len(rows) : rows[k].username = credentials.sub

\* C25: a routing request without a valid authenticated identity is
\* answered with 401 or 403 and changes nothing in the engine: no workflow
\* id is drawn, no task is scheduled, no instance stored and no
\* workflow_request handed to the transport.
C25_UnauthenticatedRouteHasNoEffect ==
    [][(/\ Len(authLog') = Len(authLog) + 1
        /\ ~ValidIdentity(authLog'[Len(authLog')].credentials, users))
          => /\ authLog'[Len(authLog')].code \in {401, 403}
             /\ routed' = routed
             /\ execQueue' = execQueue
             /\ active_workflows' = active_workflows
             /\ published' = published
             /\ dispatchLog' = dispatchLog]_vars

\* After an accepted request, a signed token of a name without a user row
\* and a request without credentials were rejected; the engine holds the
\* one workflow of the accepted request.
C25_Witness ==
    /\ Len(authLog) = 3
    /\ authLog[1].code = 200
    /\ authLog[2] = [credentials |-> [kind |-> "signed", sub |-> "nobody"],
                     code |-> 401]
    /\ authLog[3] = [credentials |-> [kind |-> "none", sub |-> None],
                     code |-> 403]
    /\ DOMAIN execQueue = {"wf-1"}
    /\ DOMAIN active_workflows = {"wf-1"}

\* C26: a registration whose query finds the username or the email is
\* answered with 400 and leaves the users table as it is; a registration
\* whose data another process inserted after its query is not answered
\* with success and writes nothing; and no two rows of the users table
\* share a username or an email, also when registrations with the same
\* data run concurrently.
C26_DuplicateUserIsRejected ==
    [][/\ \A w \in Workers :
             (regTasks[w].pc = "checked" /\ regTasks'[w].pc = "done") =>
                /\ regTasks[w].found =>
                      (regTasks'[w].code = 400 /\ users' = users)
                /\ ExistingUser(users, regTasks[w].data) =>
                      (regTasks'[w].code # 200 /\ users' = users)
       /\ \A k1, k2 \in 1..Len(users') :
             (\/ users'[k1].username = users'[k2].username
              \/ users'[k1].email = users'[k2].email) => k1 = k2]_vars

\* One server process answered a registration of existing data with 400;
\* the other one had read the same data as absent before the row was
\* inserted, and its commit was rejected: the table has the one row.
C26_Witness ==
    /\ regTasks["w1"].pc = "done"
    /\ regTasks["w1"].found
    /\ regTasks["w1"].code = 400
    /\ regTasks["w2"].pc = "done"
    /\ ~regTasks["w2"].found
    /\ regTasks["w2"].code = 500
    /\ regTasks["w1"].data = regTasks["w2"].data
    /\ users = <<regTasks["w1"].data>>

\* The status codes of the modelled answers that are in the 2xx range.
SuccessCodes == {"200", "200_text", "204"}

\* C31: a probe that is answered with any 2xx status gives the healthy
\* verdict, the same for every 2xx status, and every other outcome gives a
\* verdict that is not healthy.
C31_Any2xxIsSuccess ==
    /\ (lastCheck.probed /\ lastCheck.stored) =>
          (lastCheck.result <=> lastCheck.outcome \in SuccessCodes)
    /\ lastManual.probed =>
          (lastManual.status = "healthy" <=>
              lastManual.outcome \in SuccessCodes)

\* C35: a listener task that reads a body it cannot decode keeps running,
\* so that the messages after it are still handed to their handlers.
C35_UndecodableBodyKeepsLoopRunning ==
    [][(DispatchedNow /\ handled'[Len(handled')].body = "undecodable")
          => (listeners' = listeners /\ listeners' > 0)]_vars

\* The send task i ended with a failure in this step.
FailedNow(i) ==
    /\ tasks[i].pc # "done"
    /\ tasks'[i].pc = "done"
    /\ tasks'[i].cause # None

\* C36: when a send that was given a correlation id fails, the row that
\* this send inserted becomes failed and no other row changes, also when an
\* earlier row carries the same correlation id.
C36_FailureMarksOwnRecord ==
    [][\A i \in 1..Len(tasks) :
          (FailedNow(i) /\ tasks[i].correlation_id # None) =>
             /\ messages'[i].status = "failed"
             /\ \A j \in 1..Len(messages) :
                   j # i => messages'[j] = messages[j]]_vars

\* C37: the handling of an agent_registration message from an agent leaves
\* the row of every other agent as it is, adds no row under another name,
\* and keeps the row of the sender under the sender's name.
C37_RegistrationTouchesSenderOnly ==
    [][ReceivedNow("agent_registration") =>
          LET f == events'[Len(events')].from_agent
          IN  /\ \A n \in DOMAIN agents :
                    n # f => (n \in DOMAIN agents' /\ agents'[n] = agents[n])
              /\ DOMAIN agents' \subseteq DOMAIN agents \cup {f}
              /\ f \in DOMAIN agents => f \in DOMAIN agents']_vars

\* The callback of the given type that was received in this step names
\* workflow w.
CallbackNow(message_type, w) ==
    /\ ReceivedNow(message_type)
    /\ replies'[Len(replies')].workflow_id = w

\* C32: an instance that is executing stays in the workflow map, and it
\* leaves the executing status only in a step that handles a
\* workflow_complete or workflow_error message naming its workflow id, or
\* in the step in which its dispatch failed; no other step, and no passing
\* of time, ends it.
C32_ExecutingEndsOnlyByCallback ==
    [][\A w \in DOMAIN active_workflows :
          active_workflows[w].status = "executing" =>
             /\ w \in DOMAIN active_workflows'
             /\ active_workflows'[w].status # "executing" =>
                   \/ /\ CallbackNow("workflow_complete", w)
                      /\ active_workflows'[w].status = "completed"
                   \/ /\ CallbackNow("workflow_error", w)
                      /\ active_workflows'[w].status = "error"
                   \/ /\ execQueue[w].pc = "dispatching"
                      /\ execQueue'[w].pc = "done"
                      /\ dispatchLog'[w] = "dropped"
                      /\ active_workflows'[w].status = "error"]_vars

\* One workflow was completed by its callback and a second callback
\* arrived, while another workflow whose request was published is still
\* executing.
C32_Witness ==
    \E w1, w2 \in DOMAIN active_workflows :
        /\ w1 \in DOMAIN dispatchLog
        /\ dispatchLog[w1] = "published"
        /\ active_workflows[w1].status = "executing"
        /\ active_workflows[w2].status = "completed"
        /\ Len(events) >= 2

\* C34: every message a listener task takes from the connection is taken
\* by that one task only and handled once: the handler of its channel is
\* called once for it, however many listener tasks the subscribe calls
\* have started.
C34_HandlerCalledOncePerMessage ==
    [][Len(inbox') < Len(inbox) =>
          /\ inbox' = Tail(inbox)
          /\ Len(handled') = Len(handled) + 1
          /\ LET e == handled'[Len(handled')]
             IN  /\ e.channel = Head(inbox).channel
                 /\ e.body = Head(inbox).body
                 /\ (e.body = "json" /\ e.channel \in DOMAIN subscribers)
                       => e.handlers = {subscribers[e.channel]}]_vars

\* Two subscribe calls started two listener tasks, and each of two
\* messages was handled once.
C34_Witness ==
    /\ listeners = 2
    /\ inbox = <<>>
    /\ Len(handled) = 2
    /\ \A k \in 1..Len(handled) :
          /\ handled[k].outcome = "returned"
          /\ Cardinality(handled[k].handlers) = 1

\* C39: a check that reads a healthy verdict from the cache returns true
\* without a probe and without writing the cache; the verdict is served
\* only before its expiry, and no entry of the cache expires later than
\* one registry TTL from now.
C39_HealthyVerdictServedUntilExpiry ==
    [][/\ (lastCheck' # lastCheck /\ lastCheck'.cached = "healthy") =>
             LET a == lastCheck'.agent_type
             IN  /\ ~lastCheck'.probed
                 /\ lastCheck'.result
                 /\ a \in DOMAIN healthCache
                 /\ healthCache[a].value = "healthy"
                 /\ now < healthCache[a].expires
                 /\ healthCache' = healthCache
       /\ \A a \in DOMAIN healthCache' :
             healthCache'[a].expires <= now' + AgentRegistryTtl]_vars

\* A healthy verdict written some time ago has not expired, and the last
\* check was answered from it.
C39_Witness ==
    \E a \in DOMAIN healthCache :
        /\ lastCheck.agent_type = a
        /\ lastCheck.cached = "healthy"
        /\ lastCheck.result
        /\ healthCache[a].value = "healthy"
        /\ healthCache[a].expires - AgentRegistryTtl < now
        /\ now < healthCache[a].expires

\* C40: a publish that cannot reach the server returns to its caller: the
\* except branch of the caller does not run, the message is dropped, the
\* broker made its one connect attempt and stays unconnected when that
\* failed, and the subscriber table is as before.
C40_PublishNeverRaises ==
    [][\A w \in DOMAIN execQueue :
          (execQueue[w].pc = "dispatching" /\ execQueue'[w].pc = "done") =>
             /\ active_workflows' = active_workflows
             /\ subscribers' = subscribers
             /\ dispatchLog'[w] = "dropped" =>
                   /\ published' = published
                   /\ brokerConnected' = brokerConnected
             /\ dispatchLog'[w] = "published" =>
                   brokerConnected'[MessengerBroker]]_vars

\* The request of a workflow was dropped by a broker that could not
\* connect; the task ended normally and the instance is still executing.
C40_Witness ==
    \E w \in DOMAIN dispatchLog :
        /\ dispatchLog[w] = "dropped"
        /\ execQueue[w].pc = "done"
        /\ active_workflows[w].status = "executing"
        /\ ~brokerConnected[MessengerBroker]

\* C38 as stated: a routed request whose health check returned false is
\* not forwarded, an error routing event is logged for it, and the call
\* raises.
C38_UnhealthyLogsErrorEvent ==
    (lastRoute.checked /\ ~lastRoute.healthy) =>
        /\ ~lastRoute.forwarded
        /\ lastRoute.logged = <<"error">>
        /\ lastRoute.raised

\* C38, amended: a routed request whose health check returned false is
\* not forwarded and the call raises; it logs no success event, and it
\* logs the error routing event exactly when the event store accepts the
\* write.
C38_UnhealthyIsNeverForwarded ==
    (lastRoute.checked /\ ~lastRoute.healthy) =>
        /\ ~lastRoute.forwarded
        /\ lastRoute.raised
        /\ lastRoute.logged = IF lastRoute.store_ok THEN <<"error">>
                              ELSE <<>>

\* The probe of the health check was answered 503, and the request was
\* refused with an error event.
C38_Witness ==
    /\ lastRoute.checked
    /\ ~lastRoute.healthy
    /\ lastRoute.agent_type = lastCheck.agent_type
    /\ lastCheck.probed
    /\ lastCheck.outcome = "503"
    /\ ~lastRoute.forwarded
    /\ lastRoute.logged = <<"error">>
    /\ lastRoute.raised

====
